---- MODULE Spec2Model ----
(***************************************************************************)
(* A state-machine model of the r3f-grass pipeline: the instance layout    *)
(* (grass/utils.ts), the offscreen parameter pass (useGrassCompute and the *)
(* compute fragment shader), the per-frame callback of the Grass component *)
(* and the texel lookup of the vertex stage.                               *)
(*                                                                         *)
(* Numbers.  The program computes in IEEE floats; the model computes in    *)
(* fixed point, ONE units to 1.0, with floor division where the program    *)
(* divides.  sin is the rational approximation of Bhaskara, so the hashes  *)
(* built on it are deterministic functions of their argument with the same *)
(* structure as the program's, not the same bits.                          *)
(***************************************************************************)
EXTENDS Integers, Sequences, FiniteSets, TLC

\* grass/constants: the side of the grid.  The program uses 256; the model
\* checks a small grid.
GRID_SIZE == 3
GRASS_BLADES == GRID_SIZE * GRID_SIZE
PATCH_SIZE == 8

\* The fixed-point unit: ONE stands for 1.0.
ONE == 100 * 100

\* floor(v) and fract(v) of a fixed-point value.
Floor(v) == v - (v % ONE)
Fract(v) == v % ONE

\* sin(a) scaled by 10^6, a in ONE units of a radian: a is reduced to
\* r in [0, 2 pi), r to y in [0, pi] with the sign, and sin(y) is
\* 16 p / (5 pi^2 - 4 p) with p = y (pi - y).  The helpers take each
\* intermediate value as a parameter, so that it is computed once.
SinP(p) == ((p \div 100) * 800) \div ((1233700550 - p) \div 500000)
SinHalf(y) == SinP(y * (31416 - y))
SinReduced(r) == IF r > 31416 THEN 0 - SinHalf(r - 31416) ELSE SinHalf(r)
Sin6(a) == SinReduced(a % (2 * 31416))

\* utils.ts seededRandom: x = sin(seed) * 10000; x - floor(x).
\* Sin6 is scaled by 10^6, so x in ONE units is Sin6 * 10000 * ONE / 10^6.
SeededFract(x) == x - Floor(x)
seededRandom(seed) == SeededFract(Sin6(seed) * (10000 \div 100))

\* The jittered base position of grid cell (x, z), as the loop of
\* createGrassGeometry computes it: fx, fz, seed, jitterX, jitterZ, px, pz.
\* GeometryCellOwnFactors is the cell with a seed factor of its own for z.
GeometryJitter(seed) ==
    <<(seededRandom(seed) - ONE \div 2) \div 5, (seededRandom(seed + ONE) - ONE \div 2) \div 5>>
GeometryPlace(fx, fz, jitter) ==
    <<fx * PATCH_SIZE + jitter[1], 0, fz * PATCH_SIZE + jitter[2]>>
GeometryCellOwnFactors(x, z) ==
    GeometryPlace((x * ONE) \div GRID_SIZE - ONE \div 2,
                  (z * ONE) \div GRID_SIZE - ONE \div 2,
                  GeometryJitter(x * 7919 + z * 104729))
GeometryCell(x, z) ==
    GeometryPlace((x * ONE) \div GRID_SIZE - ONE \div 2,
                  (z * ONE) \div GRID_SIZE - ONE \div 2,
                  GeometryJitter(x * 7919 + z * 7919))

\* The same for the loop of createPositionTexture, which writes px, 0, pz, 0.
\* TextureJitterOwnSeed is the jitter with a seed offset of its own for z.
TextureJitterOwnSeed(seed) ==
    <<(seededRandom(seed) - ONE \div 2) \div 5, (seededRandom(seed + 2 * ONE) - ONE \div 2) \div 5>>
TextureJitter(seed) ==
    <<(seededRandom(seed) - ONE \div 2) \div 5, (seededRandom(seed + ONE) - ONE \div 2) \div 5>>
TexturePlace(fx, fz, jitter) ==
    <<fx * PATCH_SIZE + jitter[1], 0, fz * PATCH_SIZE + jitter[2], 0>>
TextureCell(x, z) ==
    TexturePlace((x * ONE) \div GRID_SIZE - ONE \div 2,
                 (z * ONE) \div GRID_SIZE - ONE \div 2,
                 TextureJitter(x * 7919 + z * 7919))

\* The zero-filled tail of a typed array that the loop did not write.
RECURSIVE PadTo(_, _, _)
PadTo(s, n, zero) == IF Len(s) >= n THEN s ELSE PadTo(Append(s, zero), n, zero)

\* createGrassGeometry: x outer, z inner, break of the inner loop on
\* id >= GRASS_BLADES; offsets and instanceIds are written at i++ / idIdx++.
\* GeometryLoopEarlyExit is the loop whose exit test is id >= GRASS_BLADES - 1.
RECURSIVE GeometryLoopEarlyExit(_, _, _, _)
GeometryLoopEarlyExit(x, z, offsets, instanceIds) ==
    IF x >= GRID_SIZE THEN [offsets |-> offsets, instanceIds |-> instanceIds]
    ELSE IF z >= GRID_SIZE THEN GeometryLoopEarlyExit(x + 1, 0, offsets, instanceIds)
    ELSE IF x * GRID_SIZE + z >= GRASS_BLADES - 1
         THEN GeometryLoopEarlyExit(x + 1, 0, offsets, instanceIds)
         ELSE GeometryLoopEarlyExit(x, z + 1, Append(offsets, GeometryCell(x, z)),
                                    Append(instanceIds, x * GRID_SIZE + z))

RECURSIVE GeometryLoop(_, _, _, _)
GeometryLoop(x, z, offsets, instanceIds) ==
    IF x >= GRID_SIZE THEN [offsets |-> offsets, instanceIds |-> instanceIds]
    ELSE IF z >= GRID_SIZE THEN GeometryLoop(x + 1, 0, offsets, instanceIds)
    ELSE IF x * GRID_SIZE + z >= GRASS_BLADES
         THEN GeometryLoop(x + 1, 0, offsets, instanceIds)
         ELSE GeometryLoop(x, z + 1, Append(offsets, GeometryCell(x, z)),
                           Append(instanceIds, x * GRID_SIZE + z))

GeometryOf(g) ==
    [instanceOffset |-> PadTo(g.offsets, GRASS_BLADES, <<0, 0, 0>>),
     instanceId     |-> PadTo(g.instanceIds, GRASS_BLADES, 0),
     written        |-> Len(g.instanceIds),
     count          |-> GRASS_BLADES]

createGrassGeometry == GeometryOf(GeometryLoop(0, 0, <<>>, <<>>))

\* createPositionTexture: the same loops, four floats a texel, a
\* GRID_SIZE x GRID_SIZE float texture over the data.
RECURSIVE TextureLoop(_, _, _)
TextureLoop(x, z, data) ==
    IF x >= GRID_SIZE THEN data
    ELSE IF z >= GRID_SIZE THEN TextureLoop(x + 1, 0, data)
    ELSE TextureLoop(x, z + 1, Append(data, TextureCell(x, z)))

createPositionTexture ==
    [data   |-> PadTo(TextureLoop(0, 0, <<>>), GRID_SIZE * GRID_SIZE, <<0, 0, 0, 0>>),
     width  |-> GRID_SIZE,
     height |-> GRID_SIZE]

(***************************************************************************)
(* The compute fragment shader (grassComputeShader of Grass.tsx).          *)
(***************************************************************************)
TwoPi == 2 * 31416

Abs(a) == IF a < 0 THEN 0 - a ELSE a
Clamp(v, lo, hi) == IF v < lo THEN lo ELSE IF v > hi THEN hi ELSE v

\* a * b of two fixed-point values.
Mul(a, b) == (a * b) \div ONE

\* a * (whole + tenths/10 + thousandths/1000), the product by a decimal literal.
MulDec(a, whole, tenths) == a * whole + (a * tenths) \div 10

\* The integer square root, by bisection.
RECURSIVE SqrtBisect(_, _, _)
SqrtBisect(v, lo, hi) ==
    IF hi - lo <= 1 THEN lo
    ELSE IF ((lo + hi) \div 2) * ((lo + hi) \div 2) <= v
         THEN SqrtBisect(v, (lo + hi) \div 2, hi)
         ELSE SqrtBisect(v, lo, (lo + hi) \div 2)

Isqrt(v) == SqrtBisect(v, 0, 46340)

\* sqrt(v) of a fixed-point value v.
Sqrt(v) == Isqrt(v * ONE)

\* length(d) of a fixed-point vector.
Length(d) == Isqrt(d[1] * d[1] + d[2] * d[2])

\* atan(z) for 0 <= z <= 1, and the two-argument atan(y, x) of GLSL:
\* the angle of (|x|, |y|), mirrored for x < 0, negated for y < 0.
AtanUnit(z) == (z * (7854 + (2730 * (ONE - z)) \div ONE)) \div ONE
AtanFirst(ax, ay) ==
    IF ax = 0 /\ ay = 0 THEN 0
    ELSE IF ax >= ay THEN AtanUnit((ay * ONE) \div ax)
    ELSE 15708 - AtanUnit((ax * ONE) \div ay)
AtanMirror(x, a) == IF x < 0 THEN 31416 - a ELSE a
AtanSign(y, b) == IF y < 0 THEN 0 - b ELSE b
Atan2(y, x) == AtanSign(y, AtanMirror(x, AtanFirst(Abs(x), Abs(y))))

\* fract(s * 43758.5453123) for s = sin scaled by 10^6: the product in ONE
\* units is s * 437.585.
FractOfSin(s) == Fract(s * 437 + (s * 585) \div 1000)
FractSin(a) == FractOfSin(Sin6(a))

\* hash11(x) = fract(sin(x * 37.0) * 43758.5453123).  x is reduced by the
\* period first: (x mod 2pi) * 37 and x * 37 are the same angle.
hash11(x) == FractSin((x % TwoPi) * 37)

\* hash21(p) = (hash11(dot(p, (127.1, 311.7))), hash11(dot(p, (269.5, 183.3)))).
hash21(p) ==
    <<hash11(MulDec(p[1], 127, 1) + MulDec(p[2], 311, 7)),
      hash11(MulDec(p[1], 269, 5) + MulDec(p[2], 183, 3))>>

\* hash2Signed spreads the value over [-1, 1).
hash2Signed(p) ==
    <<2 * FractSin(MulDec(p[1], 127, 1) + MulDec(p[2], 311, 7)) - ONE,
      2 * FractSin(MulDec(p[1], 269, 5) + MulDec(p[2], 183, 3)) - ONE>>

\* hash2(p) = fract(sin((dot(p, (127.1, 311.7)), dot(p, (269.5, 183.3)))) * 43758.5453).
hash2(p) ==
    <<FractSin(MulDec(p[1], 127, 1) + MulDec(p[2], 311, 7)),
      FractSin(MulDec(p[1], 269, 5) + MulDec(p[2], 183, 3))>>

Add2(a, b) == <<a[1] + b[1], a[2] + b[2]>>
Sub2(a, b) == <<a[1] - b[1], a[2] - b[2]>>
\* dot(d, d) of a fixed-point vector.
Dot2(d) == (d[1] * d[1] + d[2] * d[2]) \div ONE

\* The nine neighbour offsets in the order of the loops: j outer, i inner.
NeighbourOrder ==
    <<<<-1, -1>>, <<0, -1>>, <<1, -1>>,
      <<-1, 0>>,  <<0, 0>>,  <<1, 0>>,
      <<-1, 1>>,  <<0, 1>>,  <<1, 1>>>>

\* ClumpPickLast replaces the best cell at an equal distance too.
ClumpPickLast(d2, neighborCell, best) ==
    IF d2 <= best.minDist THEN [minDist |-> d2, bestCellId |-> neighborCell] ELSE best

\* One step of the nearest-seed loop for neighborCell at squared distance
\* d2: d2 < minDist replaces the best cell.
ClumpPick(d2, neighborCell, best) ==
    IF d2 < best.minDist THEN [minDist |-> d2, bestCellId |-> neighborCell] ELSE best

\* diff = cell - (neighborCell + hash2(neighborCell)); d2 = dot(diff, diff).
ClumpVisit(cell, neighborCell, best) ==
    ClumpPick(Dot2(Sub2(cell, Add2(neighborCell, hash2(neighborCell)))), neighborCell, best)

ClumpStep(cell, baseCell, k, best) ==
    ClumpVisit(cell,
               <<baseCell[1] + NeighbourOrder[k][1] * ONE,
                 baseCell[2] + NeighbourOrder[k][2] * ONE>>,
               best)

RECURSIVE ClumpLoop(_, _, _, _)
ClumpLoop(cell, baseCell, k, best) ==
    IF k > 9 THEN best
    ELSE ClumpLoop(cell, baseCell, k + 1, ClumpStep(cell, baseCell, k, best))

ClumpResult(best, clumpSize) ==
    [distToCenter |-> Mul(Sqrt(best.minDist), clumpSize), cellId |-> best.bestCellId]

ClumpSearch(cell, clumpSize) ==
    ClumpResult(ClumpLoop(cell, <<Floor(cell[1]), Floor(cell[2])>>, 1,
                          [minDist |-> 1000000000, bestCellId |-> <<0, 0>>]),
                clumpSize)

\* getClumpInfo: distToCenter and cellId of the nearest seed.
getClumpInfo(worldXZ, clumpSize) ==
    ClumpSearch(<<(worldXZ[1] * ONE) \div clumpSize, (worldXZ[2] * ONE) \div clumpSize>>,
                clumpSize)

\* getClumpParams: <<clumpBaseHeight, clumpBaseWidth, clumpBaseBend, clumpType>>
\* from c1 = hash21(cellId * 11.0), c2 = hash21(cellId * 23.0).
ClumpParamsOf(u, c1, c2) ==
    <<Mul(u.bladeHeight, 8000 + (c1[1] * 4) \div 10),
      Mul(u.bladeWidth, 6000 + (c1[2] * 8) \div 10),
      Mul(u.bendAmount, 7000 + (c2[1] * 5) \div 10),
      Floor(c2[2] * 3)>>

getClumpParams(cellId, u) ==
    ClumpParamsOf(u, hash21(<<cellId[1] * 11, cellId[2] * 11>>),
                     hash21(<<cellId[1] * 23, cellId[2] * 23>>))

\* getGrassParams: <<height, width, bend, type>>
\* from h1 = hash21(seed * 13.0), h2 = hash21(seed * 29.0).
GrassParamsOf(clumpParams, h1, h2) ==
    <<Mul(clumpParams[1], 6000 + (h1[1] * 6) \div 10),
      Mul(clumpParams[2], 6000 + (h1[2] * 6) \div 10),
      Mul(clumpParams[3], 8000 + (h2[1] * 4) \div 10),
      clumpParams[4]>>

getGrassParams(seed, clumpParams) ==
    GrassParamsOf(clumpParams, hash21(<<seed[1] * 13, seed[2] * 13>>),
                               hash21(<<seed[1] * 29, seed[2] * 29>>))

\* main of the compute shader, in the order of its statements.
\* clumpCenterWorld = (cellId + hash2(cellId)) * clumpSize.
ClumpCenterWorld(cellId, clumpSize) ==
    <<Mul(cellId[1] + hash2(cellId)[1], clumpSize),
      Mul(cellId[2] + hash2(cellId)[2], clumpSize)>>

\* toCenter = len > 1e-5 ? dir / len : vec2(1.0, 0.0).
ToCenter(dir, len) ==
    IF len * 10 > 1 THEN <<(dir[1] * ONE) \div len, (dir[2] * ONE) \div len>> ELSE <<ONE, 0>>

\* presence = 1 - smoothstep(0.7, 1.0, r), r = clamp(distToCenter / clumpRadius, 0, 1).
\* PresenceOfTSmoothstep is the smoothstep itself, not one minus it.
PresenceOfTSmoothstep(t) == Mul(Mul(t, t), 3 * ONE - 2 * t)
PresenceOfT(t) == ONE - Mul(Mul(t, t), 3 * ONE - 2 * t)
PresenceOfR(r) == PresenceOfT(Clamp(((r - 7000) * ONE) \div 3000, 0, ONE))
Presence(distToCenter, clumpRadius) ==
    PresenceOfR(Clamp((distToCenter * ONE) \div clumpRadius, 0, ONE))

\* baseAngle = clumpAngle + randomOffset + clumpYaw.
\* clumpYaw = (hash11(dot(cellId, (9.7, 3.1))) - 0.5) * 0.25.
ClumpYaw(cellId) ==
    (hash11(MulDec(cellId[1], 9, 7) + MulDec(cellId[2], 3, 1)) - ONE \div 2) \div 4

BaseAngle(toCenter, worldXZ, cellId) ==
    Atan2(toCenter[2], toCenter[1])
    + ((hash11(worldXZ[1] * 37 + worldXZ[2] * 17) - ONE \div 2) * 12) \div 10
    + ClumpYaw(cellId)

\* The clump parameters keyed by the blade's own position instead of the
\* cell id the search returned.
MainClumpParamsOwnPosition(worldXZ, u, clumpInfo) == getClumpParams(worldXZ, u)

\* clumpParams = getClumpParams(cellId), cellId = clumpInfo.yz.
MainClumpParams(worldXZ, u, clumpInfo) == getClumpParams(clumpInfo.cellId, u)

MainOutput(worldXZ, u, clumpInfo, toCenter) ==
    [fragColor0 |-> getGrassParams(worldXZ, MainClumpParams(worldXZ, u, clumpInfo)),
     fragColor1 |-> <<toCenter[1], toCenter[2],
                      Presence(clumpInfo.distToCenter, u.clumpRadius),
                      BaseAngle(toCenter, worldXZ, clumpInfo.cellId)>>]

MainDir(worldXZ, u, clumpInfo, dir) ==
    MainOutput(worldXZ, u, clumpInfo, ToCenter(dir, Length(dir)))

MainClump(worldXZ, u, clumpInfo) ==
    MainDir(worldXZ, u, clumpInfo,
            Sub2(ClumpCenterWorld(clumpInfo.cellId, u.clumpSize), worldXZ))

MainWorld(worldXZ, u) == MainClump(worldXZ, u, getClumpInfo(worldXZ, u.clumpSize))

\* The two colours the fragment that read posData from uPositions writes.
ShaderMain(posData, u) == MainWorld(<<posData[1], posData[3]>>, u)

(***************************************************************************)
(* Bounds of the model.                                                    *)
(***************************************************************************)
\* The clock runs from 0 to MaxTime; a frame advances it by at least 1.
MaxTime == 2
\* The number of control changes of a run.
MaxChanges == 2

(***************************************************************************)
(* The controls (Leva) and the values a run may set them to.  The first    *)
(* value of each is the default of the control; a run changes one shape    *)
(* value and both clump values, and leaves the other controls alone.       *)
(***************************************************************************)
ControlValues ==
    [bladeHeight       |-> <<6000, 10000>>,
     bladeWidth        |-> <<200>>,
     bendAmount        |-> <<4000>>,
     clumpSize         |-> <<8000, 20000>>,
     clumpRadius       |-> <<15000, 3000>>,
     thicknessStrength |-> <<200>>,
     windStrength      |-> <<3500>>]

ControlNames == DOMAIN ControlValues

DefaultControls == [n \in ControlNames |-> ControlValues[n][1]]

\* The shape and clump values, the five arguments of useGrassCompute.
ComputeControls == {"bladeHeight", "bladeWidth", "bendAmount", "clumpSize", "clumpRadius"}

Variants == {"inline", "hook"}

\* The texels of a w x h texture, <<column, row>>.
TexelsOf(w, h) == (0 .. w - 1) \X (0 .. h - 1)

\* A texel nothing has rendered to.  v is the colour; pass, pos and u record
\* the pass that wrote it, the position data its fragment read and the
\* uniforms of the material that wrote it.
BlankTexel == [v |-> <<0, 0, 0, 0>>, scene |-> "none", pass |-> 0, pos |-> <<>>, u |-> <<>>]

VARIABLES
    variant,    \* which Grass component is mounted: compute inline, or in the hook
    mounted,    \* the component has rendered once
    controls,   \* the values of the controls
    changes,    \* control changes so far
    hooks,      \* the dependency lists React keeps for each useMemo and useEffect
    pending,    \* the passive effects of the last commit, not yet run
    heap,       \* the objects created so far, by kind, in creation order
    uniforms,   \* the uniforms object shared by the grass and the depth material
    glTarget,   \* the renderer's current render target: 0 the canvas, k > 0 heap.mrt[k]
    clock,      \* state.clock.elapsedTime
    pc,         \* the frame loop: "idle", "callbacks" (useFrame subscribers), "render"
    passes,     \* renders of the compute scene so far
    frameLog,   \* what the current frame did so far, in order
    lastDraw,   \* what the last draw of the grass read
    call        \* the last evaluation of a function on its own: [op, ...]

vars == <<variant, mounted, controls, changes, hooks, pending, heap, uniforms,
          glTarget, clock, pc, passes, frameLog, lastDraw, call>>

\* The variables of the component and the renderer.
pipelineVars == <<variant, mounted, controls, changes, hooks, pending, heap, uniforms,
                  glTarget, clock, pc, passes, frameLog, lastDraw>>

\* No function has been evaluated on its own.
NoCall == [op |-> "none"]

(***************************************************************************)
(* useMemo dependency lists.                                               *)
(***************************************************************************)
\* mrtDepsOnConfig, grassComputeMatDepsShapeOnly and computeSceneDepsNone are
\* dependency lists with an entry too many or too few.
geometryDeps(c) == <<>>
positionTextureDeps(c) == <<>>
mrtDepsOnConfig(c) == <<c.clumpSize>>
mrtDeps(c) == <<>>
grassComputeMatDepsShapeOnly(positionTexture, c) ==
    <<positionTexture, c.bladeHeight, c.bladeWidth, c.bendAmount>>
grassComputeMatDeps(positionTexture, c) ==
    <<positionTexture, c.bladeHeight, c.bladeWidth, c.bendAmount, c.clumpSize, c.clumpRadius>>
computeSceneDepsNone(grassComputeMat) == <<>>
computeSceneDeps(grassComputeMat) == <<grassComputeMat>>
\* depthMat = useMemo(..., [uniforms]): the one object useRef holds.
depthMatDeps(c) == <<"uniforms">>

\* The current value of a useMemo: the object of that kind created last.
Current(h, kind) == Len(h[kind])

(***************************************************************************)
(* The objects.                                                            *)
(***************************************************************************)
\* new THREE.WebGLRenderTarget(GRID_SIZE, GRID_SIZE, {count: 2, ...}).
NewRenderTarget ==
    [width    |-> GRID_SIZE,
     height   |-> GRID_SIZE,
     textures |-> <<[t \in TexelsOf(GRID_SIZE, GRID_SIZE) |-> BlankTexel],
                    [t \in TexelsOf(GRID_SIZE, GRID_SIZE) |-> BlankTexel]>>]

\* computeConfig.uTime, the value the hook's material starts its uTime at.
ComputeConfigUTime == 0

\* The uTime uniform of the compute material the hook returns to Grass.
ComputeMaterialUTime(v) == IF v = "hook" THEN [uTime |-> ComputeConfigUTime] ELSE <<>>

\* new THREE.ShaderMaterial({... uniforms ...}) of the compute pass.
NewComputeMaterial(v, positionTexture, c) ==
    [uResolution |-> <<GRID_SIZE, GRID_SIZE>>,
     uPositions  |-> positionTexture,
     bladeHeight |-> c.bladeHeight,
     bladeWidth  |-> c.bladeWidth,
     bendAmount  |-> c.bendAmount,
     clumpSize   |-> c.clumpSize,
     clumpRadius |-> c.clumpRadius] @@ ComputeMaterialUTime(v)

\* The side of the quad of the compute scene, new THREE.PlaneGeometry(2, 2).
QuadSize == 2

\* A scene holding one mesh: the quad with the compute material.
\* NewComputeSceneUnitQuad is the scene with new THREE.PlaneGeometry(1, 1).
NewComputeSceneUnitQuad(grassComputeMat) == [quad |-> 1, material |-> grassComputeMat]
NewComputeScene(grassComputeMat) == [quad |-> QuadSize, material |-> grassComputeMat]

\* useRef({...}).current of Grass: the uniforms of the grass material.
NewUniforms(h) ==
    [thicknessStrength   |-> 200,
     uWindStrength       |-> 3500,
     uBladeParamsTexture |-> <<Current(h, "mrt"), 1>>,
     uClumpDataTexture   |-> <<Current(h, "mrt"), 2>>,
     uGrassTextureSize   |-> <<GRID_SIZE, GRID_SIZE>>,
     uTime               |-> 0]

\* The uniforms property of a material: the component's uniforms object
\* itself (shared), or an object of the material's own.
\* <CustomShaderMaterial vertexShader={grassVertex} uniforms={uniforms} />.
GrassMaterial == [vertexShader |-> "grassVertex", uniforms |-> [shared |-> TRUE, own |-> <<>>]]

\* new CustomShaderMaterialVanilla({baseMaterial: MeshDepthMaterial,
\* vertexShader: grassVertex, uniforms: uniforms, ...}).
\* NewDepthMaterialCloned is a depth material with a copy of the uniforms.
NewDepthMaterialCloned(un) ==
    [vertexShader |-> "grassVertex", uniforms |-> [shared |-> FALSE, own |-> un]]
NewDepthMaterial(un) ==
    [vertexShader |-> "grassVertex", uniforms |-> [shared |-> TRUE, own |-> <<>>]]

(***************************************************************************)
(* The renderer.  A world is the part of the state a WebGL call acts on:   *)
(* [heap, uniforms, glTarget, passes, frameLog].                           *)
(***************************************************************************)
Log(w, inFrame, e) == IF inFrame THEN [w EXCEPT !.frameLog = Append(@, e)] ELSE w

\* The quad's vertex shader passes position through: the quad covers the clip
\* space square of half side quad/2, and a texel is shaded when its centre is in it.
Covered(t, quad, width, height) ==
    /\ 2 * Abs(2 * t[1] + 1 - width) <= quad * width
    /\ 2 * Abs(2 * t[2] + 1 - height) <= quad * height

\* texture(uPositions, gl_FragCoord.xy / uResolution) with nearest filtering:
\* the texel of the data texture under the fragment centre.
SamplePositions(tex, t, uResolution) ==
    tex.data[(((2 * t[2] + 1) * tex.height) \div (2 * uResolution[2])) * tex.width
             + ((2 * t[1] + 1) * tex.width) \div (2 * uResolution[1]) + 1]

\* One fragment of the compute scene: the texel the fragment that read
\* posData writes to attachment k (layout(location = k - 1)).
FragmentOutput(out, k) == IF k = 1 THEN out.fragColor0 ELSE out.fragColor1

ShadeFragment(posData, u, k, stamp) ==
    [v     |-> FragmentOutput(ShaderMain(posData, u), k),
     scene |-> "compute", pass |-> stamp, pos |-> posData, u |-> u]

\* ShadeTexelOwnCoord is a pass whose second output samples the positions
\* with the texture coordinates exchanged.
ShadeTexelOwnCoord(h, u, t, k, stamp) ==
    ShadeFragment(SamplePositions(h.positionTexture[u.uPositions],
                                  IF k = 1 THEN t ELSE <<t[2], t[1]>>, u.uResolution),
                  u, k, stamp)

\* ShadeTexelFragSeed is a pass that derives the parameters from the position
\* moved by the fragment's own coordinates.
ShadeTexelFragSeed(h, u, t, k, stamp) ==
    [ShadeFragment(SamplePositions(h.positionTexture[u.uPositions], t, u.uResolution),
                   u, k, stamp)
        EXCEPT !.v = FragmentOutput(
                        ShaderMain(Add2(SamplePositions(h.positionTexture[u.uPositions],
                                                        t, u.uResolution),
                                        <<t[1], 0>>) \o <<0, 0>>, u), k)]

ShadeTexel(h, u, t, k, stamp) ==
    ShadeFragment(SamplePositions(h.positionTexture[u.uPositions], t, u.uResolution),
                  u, k, stamp)

\* A texel the renderer cleared before it drew (autoClear) and no fragment
\* covered.
ClearedTexel(stamp) == [BlankTexel EXCEPT !.scene = "clear", !.pass = stamp]

\* The quad with material uniforms u rendered into render target rt: the
\* target is cleared, then every covered texel is shaded.
RenderQuad(h, rt, quad, u, stamp) ==
    [k \in DOMAIN rt.textures |->
        [t \in DOMAIN rt.textures[k] |->
            IF Covered(t, quad, rt.width, rt.height)
            THEN ShadeTexel(h, u, t, k, stamp)
            ELSE ClearedTexel(stamp)]]

\* gl.render(computeScene, computeCamera): every covered texel of both
\* attachments of the current render target is written.
RenderComputeScene(w, scene) ==
    IF w.glTarget = 0
    THEN [w EXCEPT !.passes = @ + 1]
    ELSE [w EXCEPT !.passes = @ + 1,
                   !.heap.mrt[w.glTarget].textures =
                       RenderQuad(w.heap, w.heap.mrt[w.glTarget],
                                  w.heap.scene[scene].quad,
                                  w.heap.material[w.heap.scene[scene].material],
                                  w.passes + 1)]

SetRenderTarget(w, target) == [w EXCEPT !.glTarget = target]

\* getRenderTarget / setRenderTarget(mrt) / render / setRenderTarget(current):
\* the body of the mount effect, of the inline useFrame and of compute().
\* RunComputePassNoRestore leaves the render target set.
RunComputePassNoRestore(w, mrt, scene, inFrame) ==
    Log(RenderComputeScene(SetRenderTarget(w, mrt), scene), inFrame, "pass")

RunComputePass(w, mrt, scene, inFrame) ==
    SetRenderTarget(Log(RenderComputeScene(SetRenderTarget(w, mrt), scene), inFrame, "pass"),
                    w.glTarget)

\* The vertex stage's texel for an instance:
\* (mod(instanceId, size.x), floor(instanceId / size.x)).
\* texelCoordRowFirst is the lookup with the row taken from the remainder.
texelCoordRowFirst(instanceId, uGrassTextureSize) ==
    <<instanceId \div uGrassTextureSize[1], instanceId % uGrassTextureSize[1]>>
texelCoord(instanceId, uGrassTextureSize) ==
    <<instanceId % uGrassTextureSize[1], instanceId \div uGrassTextureSize[1]>>

\* texelFetch(texture, texelCoord, 0) through a uniform holding <<mrt, k>>.
TexelFetch(h, ref, t) == h.mrt[ref[1]].textures[ref[2]][t]

\* What the vertex stage of instance i reads.
VertexFetch(h, un, offset, t) ==
    [instanceOffset |-> offset,
     texel          |-> t,
     bladeParams    |-> TexelFetch(h, un.uBladeParamsTexture, t),
     clumpData      |-> TexelFetch(h, un.uClumpDataTexture, t)]

VertexReads(h, un, geo, i) ==
    VertexFetch(h, un, geo.instanceOffset[i],
                texelCoord(geo.instanceId[i], un.uGrassTextureSize))

\* What a draw of the instanced mesh with material mat evaluates: the
\* vertex shader with the uniforms the material refers to.
DrawWith(h, vertexShader, un, geo) ==
    [vertexShader |-> vertexShader, uniforms |-> un,
     reads |-> [i \in 1 .. GRASS_BLADES |-> VertexReads(h, un, geo, i)]]
DrawInputs(h, mat, un, geo) ==
    DrawWith(h, mat.vertexShader, IF mat.uniforms.shared THEN un ELSE mat.uniforms.own, geo)

\* A render of the main scene (the instanced mesh) into the current target.
\* It reads the parameter textures for every instance; rendering into a
\* render target other than the canvas overwrites that target's attachments.
RenderMainScene(w, geo) ==
    IF w.glTarget = 0 THEN w
    ELSE [w EXCEPT !.heap.mrt[w.glTarget].textures =
             [k \in DOMAIN @ |-> [t \in DOMAIN @[k] |-> [BlankTexel EXCEPT !.scene = "main"]]]]

World == [heap |-> heap, uniforms |-> uniforms, glTarget |-> glTarget,
          passes |-> passes, frameLog |-> frameLog]

SetWorld(w) ==
    /\ heap' = w.heap
    /\ uniforms' = w.uniforms
    /\ glTarget' = w.glTarget
    /\ passes' = w.passes
    /\ frameLog' = w.frameLog

(***************************************************************************)
(* The passive effects.                                                    *)
(***************************************************************************)
\* "Initialize compute pass once": deps [gl, mrt, computeScene, computeCamera, grassComputeMat].
initComputeDeps(h) == <<Current(h, "mrt"), Current(h, "scene"), Current(h, "material")>>
initCompute(w) ==
    RunComputePass(w, Current(w.heap, "mrt"), Current(w.heap, "scene"), FALSE)

\* "Update compute material uniforms when params change" (the hook only).
updateComputeUniformsDeps(h, c) ==
    <<c.bladeHeight, c.bladeWidth, c.bendAmount, c.clumpSize, c.clumpRadius,
      Current(h, "material")>>
updateComputeUniforms(w, c) ==
    [w EXCEPT !.heap.material[Current(w.heap, "material")] =
        [@ EXCEPT !.bladeHeight = c.bladeHeight,
                  !.bladeWidth  = c.bladeWidth,
                  !.bendAmount  = c.bendAmount,
                  !.clumpSize   = c.clumpSize,
                  !.clumpRadius = c.clumpRadius]]

\* "Update texture uniforms when render targets change".
textureUniformsDeps(h) == <<<<Current(h, "mrt"), 1>>, <<Current(h, "mrt"), 2>>>>
textureUniforms(w) ==
    [w EXCEPT !.uniforms.uBladeParamsTexture = <<Current(w.heap, "mrt"), 1>>,
              !.uniforms.uClumpDataTexture   = <<Current(w.heap, "mrt"), 2>>]

\* The effect that copies the rendering controls into the uniforms.
renderingUniformsDeps(c) == <<c.thicknessStrength, c.windStrength>>
renderingUniforms(w, c) ==
    [w EXCEPT !.uniforms.thicknessStrength = c.thicknessStrength,
              !.uniforms.uWindStrength = c.windStrength]

\* The effects of each component in the order it declares them.
EffectOrder(v) ==
    IF v = "inline"
    THEN <<"textureUniforms", "renderingUniforms", "initCompute">>
    ELSE <<"initCompute", "updateComputeUniforms", "textureUniforms", "renderingUniforms">>

RunEffect(e, w, c) ==
    CASE e = "initCompute"           -> initCompute(w)
      [] e = "updateComputeUniforms" -> updateComputeUniforms(w, c)
      [] e = "textureUniforms"       -> textureUniforms(w)
      [] e = "renderingUniforms"     -> renderingUniforms(w, c)

RECURSIVE RunEffects(_, _, _)
RunEffects(es, w, c) ==
    IF es = <<>> THEN w ELSE RunEffects(Tail(es), RunEffect(Head(es), w, c), c)

(***************************************************************************)
(* A render of the component with controls c, and its commit.              *)
(***************************************************************************)
\* useMemo: a new object when the component renders first or the deps changed.
UseMemo(h, kind, first, deps, object) ==
    IF first \/ hooks[kind] # deps THEN [h EXCEPT ![kind] = Append(@, object)] ELSE h

\* The hooks' dependency lists after a render that left the objects h.
RenderResult(h, c) ==
    [heap  |-> h,
     hooks |-> [geometry              |-> geometryDeps(c),
                positionTexture       |-> positionTextureDeps(c),
                mrt                   |-> mrtDeps(c),
                material              |-> grassComputeMatDeps(Current(h, "positionTexture"), c),
                scene                 |-> computeSceneDeps(Current(h, "material")),
                depthMat              |-> depthMatDeps(c),
                initCompute           |-> initComputeDeps(h),
                updateComputeUniforms |-> updateComputeUniformsDeps(h, c),
                textureUniforms       |-> textureUniformsDeps(h),
                renderingUniforms     |-> renderingUniformsDeps(c)]]

\* const computeScene = useMemo(..., [grassComputeMat]).
RenderScene(h, c, first) ==
    RenderResult(UseMemo(h, "scene", first, computeSceneDeps(Current(h, "material")),
                         NewComputeScene(Current(h, "material"))), c)

\* const grassComputeMat = useMemo(..., [positionTexture, bladeHeight, ...]).
RenderMaterial(h, c, first) ==
    RenderScene(UseMemo(h, "material", first,
                        grassComputeMatDeps(Current(h, "positionTexture"), c),
                        NewComputeMaterial(variant, Current(h, "positionTexture"), c)),
                c, first)

\* depthMat = useMemo(..., [uniforms]), of the uniforms useRef holds.
RenderDepthMat(h, c, first) ==
    RenderMaterial(UseMemo(h, "depthMat", first, depthMatDeps(c),
                           NewDepthMaterial(IF first THEN NewUniforms(h) ELSE uniforms)),
                   c, first)

\* geometry, positionTexture and mrt: useMemo(..., []).
RenderBody(c, first) ==
    RenderDepthMat(
        UseMemo(UseMemo(UseMemo(heap, "geometry", first, geometryDeps(c), createGrassGeometry),
                        "positionTexture", first, positionTextureDeps(c), createPositionTexture),
                "mrt", first, mrtDeps(c), NewRenderTarget),
        c, first)

\* The commit of a render r: the effects whose deps changed are queued.
Commit(r, c, first) ==
    /\ heap' = r.heap
    /\ hooks' = r.hooks
    /\ pending' = SelectSeq(EffectOrder(variant),
                            LAMBDA e : first \/ hooks[e] # r.hooks[e])
    /\ uniforms' = IF first THEN NewUniforms(r.heap) ELSE uniforms
    /\ controls' = c
    /\ mounted' = TRUE

RenderCommit(c, first) == Commit(RenderBody(c, first), c, first)

\* The component mounts with the default values of the controls.
Mount ==
    /\ ~mounted
    /\ pc = "idle"
    /\ RenderCommit(controls, TRUE)
    /\ UNCHANGED <<variant, changes, glTarget, clock, pc, passes, frameLog, lastDraw, call>>

\* A control is set to another value: the component renders again.  React
\* runs the effects of the last commit before it renders.
ChangeControl ==
    /\ mounted
    /\ pc = "idle"
    /\ pending = <<>>
    /\ changes < MaxChanges
    /\ \E n \in ControlNames : \E k \in DOMAIN ControlValues[n] :
          /\ ControlValues[n][k] # controls[n]
          /\ RenderCommit([controls EXCEPT ![n] = ControlValues[n][k]], FALSE)
    /\ changes' = changes + 1
    /\ UNCHANGED <<variant, glTarget, clock, pc, passes, frameLog, lastDraw, call>>

\* The passive effects of the last commit run, in order.
FlushEffects ==
    /\ pc = "idle"
    /\ pending # <<>>
    /\ SetWorld(RunEffects(pending, World, controls))
    /\ pending' = <<>>
    /\ UNCHANGED <<variant, mounted, controls, changes, hooks, clock, pc, lastDraw, call>>

(***************************************************************************)
(* The frame loop: the clock advances, the useFrame subscribers run, then  *)
(* the scene is rendered.                                                  *)
(***************************************************************************)
FrameBegin ==
    /\ mounted
    /\ pc = "idle"
    /\ \E t \in (clock + 1) .. MaxTime : clock' = t
    /\ pc' = "callbacks"
    /\ frameLog' = <<>>
    /\ UNCHANGED <<variant, mounted, controls, changes, hooks, pending, heap, uniforms,
                   glTarget, passes, lastDraw, call>>

\* useFrame of the component that computes inline.
SetUTime(w, elapsedTime) == Log([w EXCEPT !.uniforms.uTime = elapsedTime], TRUE, "uTime")

\* useFrameInlineTimeOnly is the callback without the pass.
useFrameInlineTimeOnly(w, elapsedTime) == SetUTime(w, elapsedTime)

useFrameInline(w, elapsedTime) ==
    RunComputePass(SetUTime(w, elapsedTime), Current(w.heap, "mrt"),
                   Current(w.heap, "scene"), TRUE)

\* computeToCanvas binds the canvas after the pass, whatever was bound.
computeToCanvas(w) ==
    SetRenderTarget(RunComputePass(w, Current(w.heap, "mrt"), Current(w.heap, "scene"), TRUE),
                    0)

\* compute() of the object useGrassCompute returns.
compute(w) == RunComputePass(w, Current(w.heap, "mrt"), Current(w.heap, "scene"), TRUE)

\* The material the hook returns as computeMaterial: its compute material.
computeMaterial(h) == Current(h, "material")

\* useFrame of the component that uses the hook.
SetComputeUTime(w, elapsedTime) ==
    Log([w EXCEPT !.heap.material[computeMaterial(w.heap)].uTime = elapsedTime],
        TRUE, "computeUTime")

\* useFrameHookPassFirst is the callback that runs compute() before it sets
\* the time of the compute material.
useFrameHookPassFirst(w, elapsedTime) ==
    SetComputeUTime(compute(SetUTime(w, elapsedTime)), elapsedTime)

useFrameHook(w, elapsedTime) == compute(SetComputeUTime(SetUTime(w, elapsedTime), elapsedTime))

FrameCallbackInline ==
    /\ pc = "callbacks"
    /\ variant = "inline"
    /\ SetWorld(useFrameInline(World, clock))
    /\ pc' = "render"
    /\ UNCHANGED <<variant, mounted, controls, changes, hooks, pending, clock, lastDraw, call>>

FrameCallbackHook ==
    /\ pc = "callbacks"
    /\ variant = "hook"
    /\ SetWorld(useFrameHook(World, clock))
    /\ pc' = "render"
    /\ UNCHANGED <<variant, mounted, controls, changes, hooks, pending, clock, lastDraw, call>>

\* The draw of the instanced mesh: GRASS_BLADES instances of the geometry,
\* with the grass material and, for the shadow map, with customDepthMaterial.
FrameRender ==
    /\ pc = "render"
    /\ lastDraw' = [uTime  |-> uniforms.uTime,
                    target |-> glTarget,
                    passes |-> passes,
                    reads  |-> [i \in 1 .. GRASS_BLADES |->
                                   VertexReads(heap, uniforms,
                                               heap.geometry[Current(heap, "geometry")], i)],
                    visible |-> DrawInputs(heap, GrassMaterial, uniforms,
                                           heap.geometry[Current(heap, "geometry")]),
                    depth   |-> DrawInputs(heap, heap.depthMat[Current(heap, "depthMat")],
                                           uniforms,
                                           heap.geometry[Current(heap, "geometry")])]
    /\ SetWorld(Log(RenderMainScene(World, heap.geometry[Current(heap, "geometry")]),
                    TRUE, "draw"))
    /\ pc' = "idle"
    /\ UNCHANGED <<variant, mounted, controls, changes, hooks, pending, clock, call>>

Init ==
    /\ variant \in Variants
    /\ mounted = FALSE
    /\ controls = DefaultControls
    /\ changes = 0
    /\ hooks = <<>>
    /\ pending = <<>>
    /\ heap = [geometry |-> <<>>, positionTexture |-> <<>>, mrt |-> <<>>,
               material |-> <<>>, scene |-> <<>>, depthMat |-> <<>>]
    /\ uniforms = <<>>
    /\ glTarget = 0
    /\ clock = 0
    /\ pc = "idle"
    /\ passes = 0
    /\ frameLog = <<>>
    /\ lastDraw = <<>>
    /\ call = NoCall

Next ==
    \/ Mount
    \/ ChangeControl
    \/ FlushEffects
    \/ FrameBegin
    \/ FrameCallbackInline
    \/ FrameCallbackHook
    \/ FrameRender

Spec == Init /\ [][Next]_vars

(***************************************************************************)
(* Properties.                                                             *)
(***************************************************************************)
\* The (x, z) of a position or an offset.
XZ(p) == <<p[1], p[3]>>

\* What the vertex stage of instance number i (instance id i - 1) read in a
\* draw: texel is the texel of that id, it is inside the textures, and both
\* texels were written by the pass from the position texel at the instance's
\* own (x, z), in one pass.
AlignedRead(r, i) ==
    /\ r.texel = <<(i - 1) % GRID_SIZE, (i - 1) \div GRID_SIZE>>
    /\ r.texel \in TexelsOf(GRID_SIZE, GRID_SIZE)
    /\ r.bladeParams.scene = "compute"
    /\ r.clumpData.scene = "compute"
    /\ XZ(r.bladeParams.pos) = XZ(r.instanceOffset)
    /\ XZ(r.clumpData.pos) = XZ(r.instanceOffset)
    /\ r.clumpData.u = r.bladeParams.u
    /\ r.clumpData.pass = r.bladeParams.pass

\* C1: for every instance id i in [0, N) the texel the vertex stage fetches,
\* (i mod GRID_SIZE, floor(i / GRID_SIZE)), is inside the parameter textures,
\* differs between instances, and holds the parameters the pass derived from
\* the position texel whose (x, z) is the instance's instanceOffset (x, z).
C1_IndexAlignment ==
    lastDraw # <<>> =>
        /\ \A i \in 1 .. GRASS_BLADES :
              /\ heap.geometry[Current(heap, "geometry")].instanceId[i] = i - 1
              /\ AlignedRead(lastDraw.reads[i], i)
        /\ \A i, j \in 1 .. GRASS_BLADES :
              i # j => lastDraw.reads[i].texel # lastDraw.reads[j].texel

\* A draw has read the textures for all N instances, the last of them at
\* the last texel of the last row.
C1_Witness ==
    /\ lastDraw # <<>>
    /\ Len(lastDraw.reads) = GRASS_BLADES
    /\ lastDraw.reads[GRASS_BLADES].texel = <<GRID_SIZE - 1, GRID_SIZE - 1>>
    /\ lastDraw.reads[2].bladeParams.pos # lastDraw.reads[GRID_SIZE + 1].bladeParams.pos

\* The unjittered x of the cells of grid row x: (x / GRID_SIZE - 0.5) * PATCH_SIZE.
RowBase(x) == ((x * ONE) \div GRID_SIZE - ONE \div 2) * PATCH_SIZE

\* C2: createGrassGeometry and createPositionTexture visit the cells in the
\* same order, x outer and z inner, with the same jitter: the k-th
\* instanceOffset (x, z) is the (x, z) of the k-th texel of the position
\* texture, within the jitter (0.1) of cell (k div GRID_SIZE, k mod GRID_SIZE).
C2_SameLayout ==
    mounted =>
        \A k \in 1 .. GRASS_BLADES :
            /\ XZ(heap.geometry[1].instanceOffset[k]) = XZ(heap.positionTexture[1].data[k])
            /\ Abs(heap.geometry[1].instanceOffset[k][1] - RowBase((k - 1) \div GRID_SIZE))
                  <= ONE \div 10
            /\ Abs(heap.geometry[1].instanceOffset[k][3] - RowBase((k - 1) % GRID_SIZE))
                  <= ONE \div 10
            /\ Abs(heap.positionTexture[1].data[k][1] - RowBase((k - 1) \div GRID_SIZE))
                  <= ONE \div 10

\* Both were created, with N jittered entries each.
C2_Witness ==
    /\ mounted
    /\ Len(heap.geometry[1].instanceOffset) = GRASS_BLADES
    /\ Len(heap.positionTexture[1].data) = GRASS_BLADES
    /\ \E k \in 1 .. GRASS_BLADES :
          heap.positionTexture[1].data[k][3] # RowBase((k - 1) % GRID_SIZE)

\* The texels of the parameter textures: every render target, both attachments.
Attachments == {1, 2}
Texel(m, k, t) == heap.mrt[m].textures[k][t]
AllTexels == TexelsOf(GRID_SIZE, GRID_SIZE)

\* A log in which an entry a comes before every entry b.
Precedes(log, a, b) ==
    \A i \in DOMAIN log : log[i] = b => \E j \in 1 .. (i - 1) : log[j] = a

\* Every texel of every parameter texture was written by pass number n.
WrittenBy(n) ==
    \A m \in DOMAIN heap.mrt : \A k \in Attachments : \A t \in AllTexels :
        Texel(m, k, t).scene = "compute" /\ Texel(m, k, t).pass = n

\* C3: in every rendered frame, the first included, the per-frame callback
\* has run the parameter pass to completion when the draw of the frame is
\* submitted, and no draw of a frame comes before the pass of that frame.
C3_PassBeforeDraw ==
    /\ Precedes(frameLog, "pass", "draw")
    /\ pc = "render" =>
          /\ \E j \in DOMAIN frameLog : frameLog[j] = "pass"
          /\ passes > 0
          /\ WrittenBy(passes)
    /\ lastDraw # <<>> =>
          \A i \in 1 .. GRASS_BLADES :
              /\ lastDraw.reads[i].bladeParams.pass = lastDraw.passes
              /\ lastDraw.reads[i].clumpData.pass = lastDraw.passes

\* The first frame was drawn before the effects of the mount ran: its draw
\* read what the pass of that frame wrote.
C3_Witness ==
    /\ lastDraw # <<>>
    /\ lastDraw.passes = 1
    /\ pending # <<>>
    /\ frameLog[Len(frameLog)] = "draw"
    /\ lastDraw.reads[1].bladeParams.pass = 1

\* The shape and clump values of a record of uniforms or of controls.
ConfigOf(u) == [n \in ComputeControls |-> u[n]]

\* The uniforms of the material of the compute scene in use.
SceneMaterial == heap.material[heap.scene[Current(heap, "scene")].material]

\* C4: after a change of a shape or clump value the uniforms of the compute
\* material are the new values before the next pass, and the pass runs
\* before the next draw: what a draw reads was derived from the
\* configuration at the time of the draw.
C4_ConfigBeforeDraw ==
    /\ mounted => ConfigOf(SceneMaterial) = ConfigOf(controls)
    /\ pc = "render" =>
          \A i \in 1 .. GRASS_BLADES :
              /\ ConfigOf(VertexReads(heap, uniforms, heap.geometry[1], i).bladeParams.u)
                   = ConfigOf(controls)
              /\ ConfigOf(VertexReads(heap, uniforms, heap.geometry[1], i).clumpData.u)
                   = ConfigOf(controls)

\* A draw is about to read buffers after a clump value changed.
C4_Witness ==
    /\ pc = "render"
    /\ changes > 0
    /\ controls.clumpSize # DefaultControls.clumpSize
    /\ Texel(1, 1, <<0, 0>>).u.clumpSize = controls.clumpSize

\* C5: in every frame the callback sets the uTime of the deformer and the
\* uTime of the compute material to the same clock value before it runs the
\* pass: the pass and the draw of a frame use one time value.
C5_SameTime ==
    /\ pc = "render" => uniforms.uTime = clock
    /\ (pc = "render" /\ variant = "hook") =>
          /\ heap.material[computeMaterial(heap)].uTime = uniforms.uTime
          /\ frameLog = <<"uTime", "computeUTime", "pass">>
          /\ \A k \in Attachments : \A t \in AllTexels :
                Texel(1, k, t).u.uTime = uniforms.uTime
    /\ (lastDraw # <<>> /\ variant = "hook") =>
          \A i \in 1 .. GRASS_BLADES :
              lastDraw.reads[i].bladeParams.u.uTime = lastDraw.uTime

\* A frame of the component that uses the hook, at a time other than the
\* initial one, drawn.
C5_Witness ==
    /\ variant = "hook"
    /\ lastDraw # <<>>
    /\ lastDraw.uTime = MaxTime
    /\ lastDraw.reads[1].clumpData.u.uTime = MaxTime

\* C6: each invocation of the pass writes every texel of every parameter
\* texture; after it no texel keeps a value of an earlier invocation.
C6_FullOverwrite == passes > 0 => WrittenBy(passes)

\* A second pass has overwritten the corners and the centre of both textures.
C6_Witness ==
    /\ passes >= 2
    /\ \A k \in Attachments :
          /\ Texel(1, k, <<0, 0>>).pass = passes
          /\ Texel(1, k, <<GRID_SIZE - 1, GRID_SIZE - 1>>).pass = passes
          /\ Texel(1, k, <<1, 1>>).pass = passes

\* C7: the parameter textures are written by the pass only and read through
\* the uniforms of the grass material and its depth material only; within a
\* frame no write follows the draw that reads them.
C7_SingleWriter ==
    /\ \A m \in DOMAIN heap.mrt : \A k \in Attachments : \A t \in AllTexels :
          Texel(m, k, t).scene \in {"none", "compute"}
    /\ \A i, j \in DOMAIN frameLog :
          (frameLog[i] = "draw" /\ j > i) => frameLog[j] # "pass"
    /\ lastDraw # <<>> => lastDraw.target = 0
    /\ \A m \in DOMAIN heap.material :
          DOMAIN heap.material[m] \cap {"uBladeParamsTexture", "uClumpDataTexture"} = {}
    /\ mounted => /\ uniforms.uBladeParamsTexture = <<Current(heap, "mrt"), 1>>
                  /\ uniforms.uClumpDataTexture = <<Current(heap, "mrt"), 2>>

\* A frame ended with its draw, which rendered to the canvas what the pass
\* before it wrote.
C7_Witness ==
    /\ lastDraw # <<>>
    /\ Len(frameLog) >= 2
    /\ frameLog[Len(frameLog)] = "draw"
    /\ frameLog[Len(frameLog) - 1] = "pass"
    /\ lastDraw.target = 0
    /\ Texel(1, 2, <<1, 0>>).scene = "compute"

\* Texel t of both attachments of a render target was written by the same
\* pass, from the same position and with the same uniforms.
SameBlade(a, b) ==
    /\ a.scene = b.scene
    /\ a.pos = b.pos
    /\ a.pass = b.pass
    /\ a.u = b.u

\* C8: the blade-parameter and the clump-data texture are the two
\* attachments of one render target and one fragment per texel writes both
\* in one pass: after any pass texel i of each is derived from the same
\* position.
C8_AttachmentsAligned ==
    /\ mounted => /\ uniforms.uBladeParamsTexture[1] = uniforms.uClumpDataTexture[1]
                  /\ uniforms.uBladeParamsTexture[2] # uniforms.uClumpDataTexture[2]
    /\ \A m \in DOMAIN heap.mrt :
          /\ Len(heap.mrt[m].textures) = 2
          /\ \A t \in AllTexels : SameBlade(Texel(m, 1, t), Texel(m, 2, t))

\* After a pass, two texels off the diagonal hold different positions, each
\* the same in both textures.
C8_Witness ==
    /\ passes > 0
    /\ Texel(1, 1, <<1, 0>>).pos = Texel(1, 2, <<1, 0>>).pos
    /\ Texel(1, 1, <<1, 0>>).pos # Texel(1, 1, <<0, 1>>).pos
    /\ Texel(1, 1, <<1, 0>>).pos # <<>>

\* The buffers as a function of the static positions and the configuration:
\* the value of texel t of attachment k.
PureTexel(c, k, t) ==
    FragmentOutput(ShaderMain(createPositionTexture.data[t[2] * GRID_SIZE + t[1] + 1], c), k)

\* C9: after any sequence of frames and configuration changes, the buffers
\* after a pass are a function of the static positions, the configuration at
\* the pass and the time at the pass alone: histories that reach the same
\* configuration and time leave the same buffers.
C9_HistoryIndependent ==
    pc = "render" =>
        \A k \in Attachments : \A t \in AllTexels :
            Texel(1, k, t).v = PureTexel(controls, k, t)

\* A pass ran after a value was changed and changed back, at the last time.
C9_Witness ==
    /\ pc = "render"
    /\ changes >= 2
    /\ controls = DefaultControls
    /\ clock = MaxTime
    /\ passes >= 2

\* C10: the render target, the position texture and the geometry are created
\* once and keep their size; a configuration change creates at most a
\* compute material and its scene.
C10_CreatedOnce ==
    mounted =>
        /\ Len(heap.geometry) = 1
        /\ Len(heap.positionTexture) = 1
        /\ Len(heap.mrt) = 1
        /\ heap.mrt[1].width = GRID_SIZE /\ heap.mrt[1].height = GRID_SIZE
        /\ \A k \in Attachments : DOMAIN heap.mrt[1].textures[k] = AllTexels
        /\ heap.positionTexture[1].width = GRID_SIZE
        /\ heap.positionTexture[1].height = GRID_SIZE
        /\ Len(heap.positionTexture[1].data) = GRID_SIZE * GRID_SIZE
        /\ heap.geometry[1].count = GRID_SIZE * GRID_SIZE
        /\ Len(heap.geometry[1].instanceOffset) = GRID_SIZE * GRID_SIZE
        /\ Len(heap.material) <= changes + 1
        /\ Len(heap.scene) = Len(heap.material)

\* Two configuration changes made two more materials and scenes, nothing else.
C10_Witness ==
    /\ mounted
    /\ changes >= 2
    /\ Len(heap.material) >= 3
    /\ Len(heap.scene) >= 3
    /\ Len(heap.mrt) = 1
    /\ passes >= 2

\* C11: createGrassGeometry produces exactly N = GRID_SIZE * GRID_SIZE base
\* positions, each with y = 0, and the k-th instanceId is k: the id
\* x * GRID_SIZE + z is the place of the position in iteration order, and the
\* exit on id >= N never fires (the loops write all N entries).
C11_StableIds ==
    mounted =>
        /\ Len(heap.geometry[1].instanceOffset) = GRID_SIZE * GRID_SIZE
        /\ Len(heap.geometry[1].instanceId) = GRID_SIZE * GRID_SIZE
        /\ heap.geometry[1].written = GRID_SIZE * GRID_SIZE
        /\ \A k \in 1 .. GRID_SIZE * GRID_SIZE :
              /\ heap.geometry[1].instanceOffset[k][2] = 0
              /\ heap.geometry[1].instanceId[k] = k - 1
              /\ heap.geometry[1].instanceOffset[k] =
                    GeometryCell((k - 1) \div GRID_SIZE, (k - 1) % GRID_SIZE)

\* The geometry exists, and its last id is N - 1 at the last cell of the grid.
C11_Witness ==
    /\ mounted
    /\ heap.geometry[1].instanceId[GRASS_BLADES] = GRASS_BLADES - 1
    /\ heap.geometry[1].instanceOffset[GRASS_BLADES] = GeometryCell(GRID_SIZE - 1, GRID_SIZE - 1)
    /\ heap.geometry[1].instanceOffset[GRASS_BLADES][1] > 0

(***************************************************************************)
(* Evaluations of single functions.  An action applies one function to     *)
(* inputs from a bounded set and leaves inputs and results in call, once   *)
(* in a behaviour; the component is not mounted meanwhile.                 *)
(***************************************************************************)
\* Math.random(): a generator with hidden global state, seeded by the
\* engine.  RandomNext is the state after a draw, RandomValue the number
\* in [0, 1) the draw returns.
RandomSeeds == {1, 2, 3}
RandomNext(s) == (s * 75 + 74) % 65537
RandomValue(s) == (s * ONE) \div 65537

\* The loop of the createGrassGeometry that draws its jitter from
\* Math.random(): jitterX and jitterZ are the next two draws.
RandomJitter(s1, s2) ==
    <<(RandomValue(s1) - ONE \div 2) \div 5, (RandomValue(s2) - ONE \div 2) \div 5>>
RandomPlace(fx, fz, jitter) ==
    <<fx * PATCH_SIZE + jitter[1], 0, fz * PATCH_SIZE + jitter[2]>>
RandomCell(x, z, rng) ==
    RandomPlace((x * ONE) \div GRID_SIZE - ONE \div 2,
                (z * ONE) \div GRID_SIZE - ONE \div 2,
                RandomJitter(RandomNext(rng), RandomNext(RandomNext(rng))))

RECURSIVE RandomLoop(_, _, _, _)
RandomLoop(x, z, offsets, rng) ==
    IF x >= GRID_SIZE THEN [offsets |-> offsets, rng |-> rng]
    ELSE IF z >= GRID_SIZE THEN RandomLoop(x + 1, 0, offsets, rng)
    ELSE IF x * GRID_SIZE + z >= GRASS_BLADES THEN RandomLoop(x + 1, 0, offsets, rng)
    ELSE RandomLoop(x, z + 1, Append(offsets, RandomCell(x, z, rng)),
                    RandomNext(RandomNext(rng)))

\* The offsets of that createGrassGeometry, and the generator state it leaves.
createGrassGeometryRandom(rng) == RandomLoop(0, 0, <<>>, rng)

\* The layout generated twice in one process: the second generation
\* continues with the generator state the first left.
TwiceRandom(g1) ==
    [op |-> "layout", generator |-> "Math.random",
     first  |-> PadTo(g1.offsets, GRASS_BLADES, <<0, 0, 0>>),
     second |-> PadTo(createGrassGeometryRandom(g1.rng).offsets, GRASS_BLADES, <<0, 0, 0>>)]

GenerateRandom ==
    /\ call = NoCall
    /\ \E rng \in RandomSeeds : call' = TwiceRandom(createGrassGeometryRandom(rng))
    /\ UNCHANGED pipelineVars

GenerateSeeded ==
    /\ call = NoCall
    /\ call' = [op |-> "layout", generator |-> "seededRandom",
                first  |-> createGrassGeometry.instanceOffset,
                second |-> GeometryOf(GeometryLoop(0, 0, <<>>, <<>>)).instanceOffset]
    /\ UNCHANGED pipelineVars

\* C12: generating the instance layout twice yields identical base
\* positions: the jitter of a cell is a function of its grid coordinates
\* only and uses no global random generator.
C12_Reproducible == call.op = "layout" => call.first = call.second

\* The configurations an evaluation runs under: the defaults, and every
\* control at its last value.
EvalControls ==
    {DefaultControls, [n \in ControlNames |-> ControlValues[n][Len(ControlValues[n])]]}

\* A synthetic position texture: the texture of createPositionTexture with
\* texel j holding the position of texel i.
SyntheticPositions(i, j) ==
    [createPositionTexture EXCEPT !.data[j] = createPositionTexture.data[i]]

\* One pass of the compute scene over a position texture tex with the
\* uniforms of configuration c, into a new render target.
PassOver(tex, c) ==
    RenderQuad([positionTexture |-> <<tex>>], NewRenderTarget, QuadSize,
               NewComputeMaterial("inline", 1, c), 1)

SyntheticPass ==
    /\ call = NoCall
    /\ \E i, j \in 1 .. GRID_SIZE * GRID_SIZE : \E c \in EvalControls :
          /\ i # j
          /\ call' = [op |-> "pass", controls |-> c, same |-> <<i, j>>,
                      textures |-> PassOver(SyntheticPositions(i, j), c)]
    /\ UNCHANGED pipelineVars

\* C13: under one configuration, two texels whose stored world position is
\* the same receive identical contents in every parameter texture (height,
\* width, bend, type, toCenter, presence, base angle).
C13_SamePositionSameContents ==
    call.op = "pass" =>
        \A k \in Attachments : \A t1, t2 \in AllTexels :
            XZ(call.textures[k][t1].pos) = XZ(call.textures[k][t2].pos)
                => call.textures[k][t1].v = call.textures[k][t2].v

\* A pass wrote two different texels from one position.
C13_Witness ==
    /\ call.op = "pass"
    /\ \E t1, t2 \in AllTexels :
          /\ t1 # t2
          /\ call.textures[1][t1].scene = "compute"
          /\ call.textures[2][t2].scene = "compute"
          /\ XZ(call.textures[1][t1].pos) = XZ(call.textures[1][t2].pos)
          /\ call.textures[2][t1].v = call.textures[2][t2].v
          /\ call.textures[1][t1].v[1] > 0

(***************************************************************************)
(* The compute function of createGrassCompute (the TSL variant of the      *)
(* parameter pass): one invocation per instance, over the positions.       *)
(***************************************************************************)
\* mix(a, b, t) = a + (b - a) * t.
Mix(a, b, t) == a + Mul(b - a, t)

\* The values of bladeRandomness an evaluation runs under: the default,
\* none, and a large one.
BladeRandomnessValues == {<<3000, 3000, 2000>>, <<0, 0, 0>>, <<ONE, 5000, 0>>}

\* The uniform nodes with their initial values, bladeRandomness r.
TSLUniforms(r) ==
    [uBladeHeightMin  |-> 4000, uBladeHeightMax |-> 8000,
     uBladeWidthMin   |-> 100,  uBladeWidthMax  |-> 500,
     uBendAmountMin   |-> 2000, uBendAmountMax  |-> 6000,
     uBladeRandomness |-> r]

\* const cellId = worldXZ.
TSLCellId(worldXZ) == worldXZ

\* const clumpType = 0.5.
TSLClumpType == 5000

\* clumpBaseHeight, clumpBaseWidth, clumpBaseBend and clumpType from
\* c1 = hash21(cellId * 11.0), c2 = hash21(cellId * 23.0).
TSLClumpOf(u, c1, c2) ==
    <<Mix(u.uBladeHeightMin, u.uBladeHeightMax, c1[1]),
      Mix(u.uBladeWidthMin, u.uBladeWidthMax, c1[2]),
      Mix(u.uBendAmountMin, u.uBendAmountMax, c2[1]),
      TSLClumpType>>

TSLClump(cellId, u) ==
    TSLClumpOf(u, hash21(<<cellId[1] * 11, cellId[2] * 11>>),
                  hash21(<<cellId[1] * 23, cellId[2] * 23>>))

\* height, width, bend and type from h1 = hash21(seed * 13.0),
\* h2 = hash21(seed * 29.0): clump base * mix(1 - r, 1 + r, h).
\* TSLBladeOfFixedBand varies the blade in the fixed band of getGrassParams,
\* whatever uBladeRandomness holds.
TSLBladeOfFixedBand(u, clump, h1, h2) == GrassParamsOf(clump, h1, h2)

TSLBladeOf(u, clump, h1, h2) ==
    <<Mul(clump[1], Mix(ONE - u.uBladeRandomness[1], ONE + u.uBladeRandomness[1], h1[1])),
      Mul(clump[2], Mix(ONE - u.uBladeRandomness[2], ONE + u.uBladeRandomness[2], h1[2])),
      Mul(clump[3], Mix(ONE - u.uBladeRandomness[3], ONE + u.uBladeRandomness[3], h2[1])),
      clump[4]>>

TSLBlade(seed, u, clump) ==
    TSLBladeOf(u, clump, hash21(<<seed[1] * 13, seed[2] * 13>>),
                         hash21(<<seed[1] * 29, seed[2] * 29>>))

\* One invocation of computeFn for the instance at worldXZ: the cell id
\* and clump values it computed, and the data element it assigned
\* (bladeHeight, bladeWidth, bladeBend, bladeType).
computeFnData(worldXZ, u, cellId, clump) ==
    [pos |-> worldXZ, cellId |-> cellId, clump |-> clump,
     data |-> TSLBlade(worldXZ, u, clump)]
computeFnCell(worldXZ, u, cellId) ==
    computeFnData(worldXZ, u, cellId, TSLClump(cellId, u))
computeFn(worldXZ, u) == computeFnCell(worldXZ, u, TSLCellId(worldXZ))

(***************************************************************************)
(* Evaluations of the parameter pass on two blades.                        *)
(***************************************************************************)
\* The second blade of an evaluation stands at the first plus one of these.
NearbyOffsets == {<<0, 0>>, <<1000, 0>>, <<-1500, 500>>, <<ONE, 0>>}

\* main of the fragment shader for the blade at worldXZ: the cell id the
\* search returned, the clump values main computed from it, and the two
\* colours it wrote.
MainTraceOf(worldXZ, u, clumpInfo) ==
    [pos |-> worldXZ, cellId |-> clumpInfo.cellId,
     distToCenter |-> clumpInfo.distToCenter,
     clumpParams |-> MainClumpParams(worldXZ, u, clumpInfo),
     clumpYaw |-> ClumpYaw(clumpInfo.cellId),
     out |-> MainClump(worldXZ, u, clumpInfo)]
MainTrace(worldXZ, u) == MainTraceOf(worldXZ, u, getClumpInfo(worldXZ, u.clumpSize))

\* The fragment shader run for two blades under configuration c.
ShadeTwo ==
    /\ call = NoCall
    /\ \E i \in 1 .. GRASS_BLADES : \E d \in NearbyOffsets : \E c \in EvalControls :
          call' = [op |-> "main", controls |-> c,
                   blades |-> <<MainTrace(XZ(createGrassGeometry.instanceOffset[i]),
                                          NewComputeMaterial("inline", 1, c)),
                                MainTrace(Add2(XZ(createGrassGeometry.instanceOffset[i]), d),
                                          NewComputeMaterial("inline", 1, c))>>]
    /\ UNCHANGED pipelineVars

\* The compute function dispatched for two instances under bladeRandomness r.
DispatchTwo ==
    /\ call = NoCall
    /\ \E i \in 1 .. GRASS_BLADES : \E d \in NearbyOffsets : \E r \in BladeRandomnessValues :
          call' = [op |-> "computeFn", uniforms |-> TSLUniforms(r),
                   blades |-> <<computeFn(XZ(createGrassGeometry.instanceOffset[i]),
                                          TSLUniforms(r)),
                                computeFn(Add2(XZ(createGrassGeometry.instanceOffset[i]), d),
                                          TSLUniforms(r))>>]
    /\ UNCHANGED pipelineVars

\* C14: two blades with the same cell id receive the same clump-level base
\* height, width and bend, the same blade type and the same clump yaw
\* bias: these depend on the cell id and the configuration, not on the
\* position of the blade.
C14_ClumpValuesByCell ==
    /\ call.op = "main" =>
          (call.blades[1].cellId = call.blades[2].cellId =>
              /\ call.blades[1].clumpParams = call.blades[2].clumpParams
              /\ call.blades[1].clumpYaw = call.blades[2].clumpYaw
              /\ call.blades[1].out.fragColor0[4] = call.blades[2].out.fragColor0[4])
    /\ call.op = "computeFn" =>
          (call.blades[1].cellId = call.blades[2].cellId =>
              call.blades[1].clump = call.blades[2].clump)

\* Two blades at different positions in one cell: the clump values agree
\* while the heights of the blades differ.
C14_Witness ==
    /\ call.op = "main"
    /\ call.blades[1].pos # call.blades[2].pos
    /\ call.blades[1].cellId = call.blades[2].cellId
    /\ call.blades[1].clumpParams = call.blades[2].clumpParams
    /\ call.blades[1].out.fragColor0[1] # call.blades[2].out.fragColor0[1]

(***************************************************************************)
(* Evaluations of presence over distances to the clump center.             *)
(***************************************************************************)
\* The distances of an evaluation are the multiples of 0.05 up to
\* MaxDistance of them.
MaxDistance == 40
Distances == {k * 500 : k \in 0 .. MaxDistance}

\* The presence statements of main for two distances d1 <= d2 under the
\* clumpRadius of configuration c.
PresenceTwo ==
    /\ call = NoCall
    /\ \E c \in EvalControls : \E d1, d2 \in Distances :
          /\ d1 <= d2
          /\ call' = [op |-> "presence", clumpRadius |-> c.clumpRadius,
                      dist |-> <<d1, d2>>,
                      presence |-> <<Presence(d1, c.clumpRadius),
                                     Presence(d2, c.clumpRadius)>>]
    /\ UNCHANGED pipelineVars

\* C15: for a clumpRadius > 0, presence lies in [0, 1] for every distance,
\* does not increase with the distance to the clump center, is 1 from
\* distance 0 up to 0.7 * clumpRadius and is 0 from clumpRadius on; the
\* presence a pass writes for a blade obeys the same bounds.
C15_PresenceFalloff ==
    /\ call.op = "presence" =>
          /\ \A k \in {1, 2} :
                /\ call.presence[k] >= 0
                /\ call.presence[k] <= ONE
                /\ call.dist[k] * 10 <= 7 * call.clumpRadius => call.presence[k] = ONE
                /\ call.dist[k] >= call.clumpRadius => call.presence[k] = 0
          /\ call.presence[2] <= call.presence[1]
    /\ call.op = "main" =>
          \A k \in {1, 2} :
             /\ call.blades[k].out.fragColor1[3] >= 0
             /\ call.blades[k].out.fragColor1[3] <= ONE
             /\ call.blades[k].distToCenter * 10 <= 7 * call.controls.clumpRadius
                   => call.blades[k].out.fragColor1[3] = ONE
             /\ call.blades[k].distToCenter >= call.controls.clumpRadius
                   => call.blades[k].out.fragColor1[3] = 0

\* Presence falls strictly between a distance inside the falloff band and a
\* larger one, from a value below 1 to a value above 0.
C15_Witness ==
    /\ call.op = "presence"
    /\ call.clumpRadius > 0
    /\ call.dist[1] < call.dist[2]
    /\ call.presence[1] < ONE
    /\ call.presence[2] > 0
    /\ call.presence[2] < call.presence[1]

\* The three blade types: a hash value in [0, 1) quantized into 3 buckets.
BladeTypes == {0, ONE, 2 * ONE}

\* C16: every blade type a parameter pass writes to the parameter buffer is
\* one of the three values 0, 1, 2.
C16_TypeInBuckets ==
    /\ call.op = "main" =>
          \A k \in {1, 2} : call.blades[k].out.fragColor0[4] \in BladeTypes
    /\ call.op = "pass" =>
          \A t \in AllTexels :
             call.textures[1][t].scene = "compute" => call.textures[1][t].v[4] \in BladeTypes
    /\ call.op = "computeFn" =>
          \A k \in {1, 2} : call.blades[k].data[4] \in BladeTypes

\* The first three components of a parameter vector: height, width, bend.
Shape(v) == <<v[1], v[2], v[3]>>

SinF(a) == Sin6(a) \div 100
CosF(a) == SinF(a + 15708)

Scale3(v, k) == <<Mul(v[1], k), Mul(v[2], k), Mul(v[3], k)>>
Add3(a, b) == <<a[1] + b[1], a[2] + b[2], a[3] + b[3]>>

\* safeNormalize(v) = dot(v, v) > 1e-6 ? v * inversesqrt(dot(v, v)) : (1, 0).
safeNormalize(v) ==
    IF Dot2(v) * 100 > 1
    THEN <<(v[1] * ONE) \div Length(v), (v[2] * ONE) \div Length(v)>>
    ELSE <<ONE, 0>>

\* getWindDirection = vec3(safeNormalize(uWindDir), 0.0).xzy.
getWindDirection(u) == <<safeNormalize(u.uWindDir)[1], 0, safeNormalize(u.uWindDir)[2]>>

\* getBezierControlPointsDrooping puts p2 above the tip.
getBezierControlPointsDrooping(bladeType, height, bend) ==
    IF bladeType < ONE \div 2
    THEN <<<<0, Mul(height, 4000), Mul(bend, 5000)>>,
           <<0, Mul(height, 12500), Mul(bend, 7000)>>, <<0, height, 0>>>>
    ELSE IF bladeType < ONE + ONE \div 2
    THEN <<<<0, Mul(height, 3500), Mul(bend, 6000)>>,
           <<0, Mul(height, 12000), Mul(bend, 8000)>>, <<0, height, 0>>>>
    ELSE <<<<0, Mul(height, 3000), Mul(bend, 7000)>>,
           <<0, Mul(height, 11500), Mul(bend, ONE)>>, <<0, height, 0>>>>
\* getBezierControlPoints and p3: the static control points p1, p2, p3.
getBezierControlPoints(bladeType, height, bend) ==
    IF bladeType < ONE \div 2
    THEN <<<<0, Mul(height, 4000), Mul(bend, 5000)>>,
           <<0, Mul(height, 7500), Mul(bend, 7000)>>, <<0, height, 0>>>>
    ELSE IF bladeType < ONE + ONE \div 2
    THEN <<<<0, Mul(height, 3500), Mul(bend, 6000)>>,
           <<0, Mul(height, 7000), Mul(bend, 8000)>>, <<0, height, 0>>>>
    ELSE <<<<0, Mul(height, 3000), Mul(bend, 7000)>>,
           <<0, Mul(height, 6500), Mul(bend, ONE)>>, <<0, height, 0>>>>

\* PushPointsRootMost pushes p1 most and the tip least.
PushPointsRootMost(p, windDir, push) ==
    <<Add3(p[1], Scale3(windDir, Mul(push, 2500))),
      Add3(p[2], Scale3(windDir, Mul(push, 1500))),
      Add3(p[3], Scale3(windDir, Mul(push, 800)))>>
\* applyWindPush: windScale = windStrength01 * uWindStrength; p1, p2, p3
\* move along windDir by windScale * height * 0.08, 0.15, 0.25.
PushPoints(p, windDir, push) ==
    <<Add3(p[1], Scale3(windDir, Mul(push, 800))),
      Add3(p[2], Scale3(windDir, Mul(push, 1500))),
      Add3(p[3], Scale3(windDir, Mul(push, 2500)))>>
applyWindPush(p, u, windStrength01, height) ==
    PushPoints(p, getWindDirection(u), Mul(Mul(windStrength01, u.uWindStrength), height))

\* applyWindSway.  seed = mod(perBladeHash01 * 3.567, 1.0).
SwaySeed(hash) == ((hash * 3567) \div 1000) % ONE
\* gust = 0.65 + 0.35 * sin(uTime * 0.35 + seed * 6.28318).
SwayGust(u, seed) == 6500 + Mul(3500, SinF(Mul(u.uTime, 3500) + Mul(seed, 62832)))
\* phase = perBladeHash01 * 6.28318 + dot(worldXZ, windDir2) * 0.15.
SwayPhase(b, W) ==
    Mul(b.hash, 62832) + Mul(Mul(b.worldXZ[1], W[1]) + Mul(b.worldXZ[2], W[3]), 1500)
\* low = sin(uTime * baseFreq + phase + t * 2.2).
SwayLow(u, baseFreq, phase, t) == SinF(Mul(u.uTime, baseFreq) + phase + Mul(t, 22000))
\* high = sin(uTime * (baseFreq * 5.0) + phase * 1.7 + t * 5.0).
SwayHigh(u, baseFreq, phase, t) ==
    SinF(Mul(u.uTime, baseFreq * 5) + Mul(phase, 17000) + t * 5)
\* SwayAmpUnscaled is an amplitude that leaves uWindStrength out.
SwayAmpUnscaled(u, height, windStrength01) == Mul(height, windStrength01)
\* amp = uWindStrength * height * windStrength01.
SwayAmp(u, height, windStrength01) == Mul(Mul(u.uWindStrength, height), windStrength01)
\* dir = normalize(W + CW * (high * 0.35)), CW = normalize((-W.z, 0, W.x)).
SwayDirOf(v) == <<safeNormalize(<<v[1], v[3]>>)[1], 0, safeNormalize(<<v[1], v[3]>>)[2]>>
SwayDir(W, high) ==
    SwayDirOf(Add3(W, Scale3(<<safeNormalize(<<0 - W[3], W[1]>>)[1], 0,
                               safeNormalize(<<0 - W[3], W[1]>>)[2]>>, Mul(high, 3500))))
\* p1, p2, p3 += dir * (low * swayLow * k + high * swayHigh * k * k2).
SwayPoints(p, dir, lo, hi) ==
    <<Add3(p[1], Scale3(dir, Mul(lo, 2500) + Mul(Mul(hi, 2500), 3000))),
      Add3(p[2], Scale3(dir, Mul(lo, 5500) + Mul(Mul(hi, 5500), 6000))),
      Add3(p[3], Scale3(dir, lo + hi))>>
\* lo = low * swayLow, hi = high * swayHigh, swayLow = amp * gust *
\* uSwayStrength, swayHigh = amp * 0.8 * uSwayStrength.
SwayWaves(p, u, amp, W, seed, low, high) ==
    SwayPoints(p, SwayDir(W, high),
               Mul(low, Mul(Mul(amp, SwayGust(u, seed)), u.uSwayStrength)),
               Mul(high, Mul(MulDec(amp, 0, 8), u.uSwayStrength)))
SwayWith(p, u, b, amp, W, seed) ==
    SwayWaves(p, u, amp, W, seed,
              SwayLow(u, Mix(u.uSwayFreqMin, u.uSwayFreqMax, seed), SwayPhase(b, W), b.t),
              SwayHigh(u, Mix(u.uSwayFreqMin, u.uSwayFreqMax, seed), SwayPhase(b, W), b.t))
applyWindSway(p, u, b, windStrength01) ==
    SwayWith(p, u, b, SwayAmp(u, b.params[1], windStrength01),
             getWindDirection(u), SwaySeed(b.hash))

\* Steps 4 and 5 of main of the cubic shader: the control points after
\* applyWindPush and applyWindSway.
CubicPoints(b, u) ==
    applyWindSway(applyWindPush(getBezierControlPoints(b.params[4], b.params[1], b.params[3]),
                                u, u.wind, b.params[1]),
                  u, b, u.wind)

\* main of grassVertex.glsl.  windS = (wind * 2 - 1) * uWindStrength.
WindS(u) == Mul(u.wind * 2 - ONE, u.uWindStrength)
\* anglePre = mix(baseAngle, windAngle, 0.25 * uWindStrength) + windFacing,
\* windFacing = (wind * 2 - 1) * 0.35 * uWindStrength.
AnglePre(b, u) ==
    Mix(b.baseAngle, Atan2(u.uWindDir[2], u.uWindDir[1]), Mul(2500, u.uWindStrength))
    + Mul(Mul(u.wind * 2 - ONE, 3500), u.uWindStrength)
\* vec3(perpXZ.x, 0.0, perpXZ.y), perpXZ = (-sin(anglePre), cos(anglePre)).
PerpXZ(angle) == <<0 - SinF(angle), 0, CosF(angle)>>
\* The static control points p1, p2 of the quadratic spine.
QuadraticStatic(bladeType, height, bend) ==
    IF bladeType < ONE \div 2
    THEN <<<<0, Mul(height, 9000), Mul(bend, 7000)>>, <<0, height, 0>>>>
    ELSE IF bladeType < ONE + ONE \div 2
    THEN <<<<0, Mul(height, 8500), Mul(bend, 8000)>>, <<0, height, 0>>>>
    ELSE <<<<0, Mul(height, 8000), Mul(bend, ONE)>>, <<0, height, 0>>>>
\* sway = sin(uTime * (1.8 + wind * 1.2) + phase + t * 2.2),
\* phase = hash11(worldXZ.x * 12.3 + worldXZ.y * 78.9) * 6.28318.
QuadraticSway(b, u) ==
    SinF(Mul(u.uTime, 18000 + MulDec(u.wind, 1, 2))
         + Mul(hash11(MulDec(b.worldXZ[1], 12, 3) + MulDec(b.worldXZ[2], 78, 9)), 62832)
         + Mul(b.t, 22000))
\* swayAmt = uWindStrength * 0.02 * height * wind.
QuadraticSwayAmt(b, u) == Mul(Mul(Mul(u.uWindStrength, 200), b.params[1]), u.wind)
\* p1 += perp * midPush; p2 += perp * tipPush; p2 += perp * (sway * swayAmt).
QuadraticWind(p, perp, push, sway) ==
    <<Add3(p[1], Scale3(perp, Mul(push, 1500))),
      Add3(Add3(p[2], Scale3(perp, Mul(push, 3500))), Scale3(perp, sway))>>
QuadraticPoints(b, u) ==
    QuadraticWind(QuadraticStatic(b.params[4], b.params[1], b.params[3]),
                  PerpXZ(AnglePre(b, u)), Mul(WindS(u), b.params[1]),
                  Mul(QuadraticSway(b, u), QuadraticSwayAmt(b, u)))

(***************************************************************************)
(* Evaluations of the vertex stage for one instance at two times.          *)
(***************************************************************************)
\* The values of an evaluation: wind strength, wind sample, per-blade
\* hash, time, t and wind direction.
WindStrengths == {0, 3500}
WindSamples == {0, 3000, ONE}
BladeHashes == {2500, 9000}
ShaderTimes == {0, ONE, 25000}
SpineParameters == {0, ONE \div 2, ONE}
WindDirs == {<<ONE, 0>>, <<6000, 0 - 8000>>}

\* What main read for instance i: the parameters the pass wrote for its
\* position under the default controls.
BladeOf(worldXZ, out, hash, t) ==
    [worldXZ |-> worldXZ, params |-> out.fragColor0, baseAngle |-> out.fragColor1[4],
     hash |-> hash, t |-> t]
BladeAt(i, hash, t) ==
    BladeOf(XZ(createGrassGeometry.instanceOffset[i]),
            ShaderMain(createGrassGeometry.instanceOffset[i],
                       NewComputeMaterial("inline", 1, DefaultControls)),
            hash, t)

VertexUniforms(strength, dir, time, wind) ==
    [uTime |-> time, uWindStrength |-> strength, uWindDir |-> dir, wind |-> wind,
     uSwayFreqMin |-> 4000, uSwayFreqMax |-> 15000, uSwayStrength |-> 1000]

DeformCubicTwo(b, u1, u2) ==
    [op |-> "cubic", blade |-> b, uniforms |-> <<u1, u2>>,
     static |-> getBezierControlPoints(b.params[4], b.params[1], b.params[3]),
     after |-> <<CubicPoints(b, u1), CubicPoints(b, u2)>>]

DeformCubic ==
    /\ call = NoCall
    /\ \E i \in 1 .. GRID_SIZE : \E h \in BladeHashes : \E t \in SpineParameters :
       \E s \in WindStrengths : \E dir \in WindDirs :
       \E t1, t2 \in ShaderTimes : \E w1, w2 \in WindSamples :
          /\ t1 < t2
          /\ call' = DeformCubicTwo(BladeAt(i, h, t), VertexUniforms(s, dir, t1, w1),
                                    VertexUniforms(s, dir, t2, w2))
    /\ UNCHANGED pipelineVars

DeformQuadraticTwo(b, u1, u2) ==
    [op |-> "quadratic", blade |-> b, uniforms |-> <<u1, u2>>,
     static |-> QuadraticStatic(b.params[4], b.params[1], b.params[3]),
     after |-> <<QuadraticPoints(b, u1), QuadraticPoints(b, u2)>>,
     angle |-> <<AnglePre(b, u1), AnglePre(b, u2)>>]

DeformQuadratic ==
    /\ call = NoCall
    /\ \E i \in 1 .. GRID_SIZE : \E t \in SpineParameters :
       \E s \in WindStrengths : \E dir \in WindDirs :
       \E t1, t2 \in ShaderTimes : \E w1, w2 \in WindSamples :
          /\ t1 < t2
          /\ call' = DeformQuadraticTwo(BladeAt(i, 0, t), VertexUniforms(s, dir, t1, w1),
                                        VertexUniforms(s, dir, t2, w2))
    /\ UNCHANGED pipelineVars

\* C17: with wind strength 0 the control points after wind push and sway
\* equal the static control points at every time, wind sample and phase,
\* and the angle of the blade does not change from one time to the next.
C17_NoWindNoMotion ==
    /\ (call.op = "cubic" /\ call.uniforms[1].uWindStrength = 0) =>
          /\ call.after[1] = call.static
          /\ call.after[2] = call.static
    /\ (call.op = "quadratic" /\ call.uniforms[1].uWindStrength = 0) =>
          /\ call.after[1] = call.static
          /\ call.after[2] = call.static
          /\ call.angle[1] = call.angle[2]

\* A blade of positive height deformed with wind strength 0 at two
\* different times under two different wind samples, one of them positive.
C17_Witness ==
    /\ call.op = "cubic"
    /\ call.uniforms[1].uWindStrength = 0
    /\ call.uniforms[1].uTime < call.uniforms[2].uTime
    /\ call.uniforms[1].wind # call.uniforms[2].wind
    /\ call.uniforms[2].wind > 0
    /\ call.blade.params[1] > 0
    /\ call.after[2] = call.static

\* C18: the facing angle the deformer rotates a blade by lies in
\* [0, 2 pi) for every clump direction angle, per-blade offset, clump yaw
\* bias, wind angle and wind strength: the base angle a pass writes, and
\* the angle the vertex shader blends from it.
C18_FacingAngleInRange ==
    /\ call.op = "main" =>
          \A k \in {1, 2} :
             /\ call.blades[k].out.fragColor1[4] >= 0
             /\ call.blades[k].out.fragColor1[4] < TwoPi
    /\ call.op = "quadratic" =>
          \A k \in {1, 2} :
             /\ call.angle[k] >= 0
             /\ call.angle[k] < TwoPi

(***************************************************************************)
(* The width profile of a blade (step 8 of main in both vertex shaders).   *)
(***************************************************************************)
\* pow(x, e) for 0 <= x <= 1 and 0 <= e < 1: the product of the roots
\* x^(1/2), x^(1/4), ... of x over the binary digits of e, to 7 digits
\* (0.9 is 1/2 + 1/4 + 1/8 + 1/64 + 1/128 + ...).
RECURSIVE PowFrac(_, _, _)
PowDigit(root, e, k) ==
    IF 2 * e >= ONE THEN Mul(root, PowFrac(root, 2 * e - ONE, k + 1))
    ELSE PowFrac(root, 2 * e, k + 1)
PowFrac(x, e, k) == IF k > 7 THEN ONE ELSE PowDigit(Sqrt(x), e, k)
Pow(x, e) == PowFrac(x, e, 1)

baseWidth == 3500
tipThin == 9000

\* widthFactorMinus subtracts baseWidth from t.
widthFactorMinus(t) == Mul(t - baseWidth, Pow(ONE - t, tipThin))
\* widthFactor = (t + baseWidth) * pow(1.0 - t, tipThin).
widthFactor(t) == Mul(t + baseWidth, Pow(ONE - t, tipThin))

\* t = uv.y runs from the root 0 to the tip 1 in MaxSpineSteps steps.
MaxSpineSteps == 20
SpineSteps == {(k * ONE) \div MaxSpineSteps : k \in 0 .. MaxSpineSteps}

WidthAt ==
    /\ call = NoCall
    /\ \E t \in SpineSteps : call' = [op |-> "width", t |-> t, widthFactor |-> widthFactor(t)]
    /\ UNCHANGED pipelineVars

\* C20: the width multiplier (t + baseWidth) * (1 - t)^tipThin is in [0, 1]
\* at the root t = 0 and at the tip t = 1, is 0 at the tip, and is not
\* negative for any t in [0, 1].
C20_WidthProfile ==
    call.op = "width" =>
        /\ call.widthFactor >= 0
        /\ call.t = 0 => call.widthFactor <= ONE
        /\ call.t = ONE => call.widthFactor = 0

\* The width multiplier was evaluated at the tip and is 0 there.
C20_Witness == call.op = "width" /\ call.t = ONE /\ call.widthFactor = 0

(***************************************************************************)
(* Steps 6 and 7 of main of the cubic vertex shader: the spine, the        *)
(* tangent and the TBN frame.  A normalized vector is a record: v, and nan *)
(* when the components are not numbers.                                    *)
(***************************************************************************)
Sub3(a, b) == <<a[1] - b[1], a[2] - b[2], a[3] - b[3]>>
Cross(a, b) ==
    <<Mul(a[2], b[3]) - Mul(a[3], b[2]),
      Mul(a[3], b[1]) - Mul(a[1], b[3]),
      Mul(a[1], b[2]) - Mul(a[2], b[1])>>
Length3(v) == Isqrt(v[1] * v[1] + v[2] * v[2] + v[3] * v[3])

\* normalize(v) = v / length(v).  For a zero-length v the division is 0/0:
\* the result is not a number, or the zero vector where the hardware
\* flushes it.
normalize(v) ==
    IF Length3(v) = 0
    THEN {[nan |-> TRUE, v |-> <<0, 0, 0>>], [nan |-> FALSE, v |-> <<0, 0, 0>>]}
    ELSE {[nan |-> FALSE,
           v |-> <<(v[1] * ONE) \div Length3(v), (v[2] * ONE) \div Length3(v),
                   (v[3] * ONE) \div Length3(v)>>]}

\* bezier3 and bezier3Tangent over p = <<p1, p2, p3>> with p0 = (0, 0, 0),
\* u = 1 - t.
bezier3(p, t, u) ==
    Add3(Add3(Scale3(p[1], 3 * Mul(Mul(u, u), t)), Scale3(p[2], 3 * Mul(Mul(u, t), t))),
         Scale3(p[3], Mul(Mul(t, t), t)))
bezier3Tangent(p, t, u) ==
    Add3(Add3(Scale3(p[1], 3 * Mul(u, u)), Scale3(Sub3(p[2], p[1]), 6 * Mul(u, t))),
         Scale3(Sub3(p[3], p[2]), 3 * Mul(t, t)))

\* vec3 ref = vec3(0.0, 0.0, 1.0).
FrameRef == <<0, 0, ONE>>

\* side = normalize(cross(ref, tangent)) of a tangent that is a number.
FrameSide(tangent) ==
    IF tangent.nan THEN {[nan |-> TRUE, v |-> <<0, 0, 0>>]}
    ELSE normalize(Cross(FrameRef, tangent.v))

\* The blades and wind directions of a frame evaluation: the blades of
\* the pass, a blade of height 0 with and without bend, and the wind
\* directions with the zero vector.
FlatBlades ==
    {[worldXZ |-> <<0, 0>>, params |-> <<0, 200, bend, 0>>, baseAngle |-> 0,
      hash |-> 0, t |-> t] : bend \in {0, 4000}, t \in SpineParameters}
FrameBlades ==
    {BladeAt(i, 2500, t) : i \in 1 .. GRID_SIZE, t \in SpineParameters} \cup FlatBlades
FrameWindDirs == WindDirs \cup {<<0, 0>>}

\* toCenter of the parameter pass for a blade at worldXZ.
FrameToCenterDir(worldXZ, clumpSize) ==
    Sub2(ClumpCenterWorld(getClumpInfo(worldXZ, clumpSize).cellId, clumpSize), worldXZ)
FrameToCenter(worldXZ, clumpSize) ==
    ToCenter(FrameToCenterDir(worldXZ, clumpSize),
             Length(FrameToCenterDir(worldXZ, clumpSize)))

\* The frame of blade b under uniforms u with control points p after wind:
\* tangent and side are the outcomes of the two normalize calls.
FrameOf(b, u, p, tangent, side) ==
    [op |-> "frame", blade |-> b, uniforms |-> u,
     toCenterDir |-> FrameToCenterDir(b.worldXZ, DefaultControls.clumpSize),
     toCenter |-> FrameToCenter(b.worldXZ, DefaultControls.clumpSize),
     windDir |-> getWindDirection(u),
     static |-> getBezierControlPoints(b.params[4], b.params[1], b.params[3]),
     pushed |-> applyWindPush(getBezierControlPoints(b.params[4], b.params[1], b.params[3]),
                              u, u.wind, b.params[1]),
     points |-> p,
     root |-> bezier3(p, 0, ONE),
     raw |-> bezier3Tangent(p, b.t, ONE - b.t),
     tangent |-> tangent, side |-> side]

FrameWith(b, u, p) ==
    \E tangent \in normalize(bezier3Tangent(p, b.t, ONE - b.t)) :
    \E side \in FrameSide(tangent) :
        call' = FrameOf(b, u, p, tangent, side)

FrameCubic ==
    /\ call = NoCall
    /\ \E b \in FrameBlades : \E s \in WindStrengths : \E dir \in FrameWindDirs :
       \E time \in ShaderTimes : \E w \in WindSamples :
          FrameWith(b, VertexUniforms(s, dir, time, w),
                    CubicPoints(b, VertexUniforms(s, dir, time, w)))
    /\ UNCHANGED pipelineVars

\* A vector is of unit length, to the rounding of the fixed point.
IsUnit(n) == ~n.nan /\ Length3(n.v) >= ONE - 2 /\ Length3(n.v) <= ONE + 2

IsUnit2(v) == Length(v) >= ONE - 2 /\ Length(v) <= ONE + 2

\* C21: the direction to the clump center, the wind direction and the
\* tangent of the spine are unit vectors in every evaluation, a zero-length
\* input being replaced by a fixed unit vector.
C21_UnitVectors ==
    call.op = "frame" =>
        /\ IsUnit2(call.toCenter)
        /\ IsUnit2(<<call.windDir[1], call.windDir[3]>>) /\ call.windDir[2] = 0
        /\ IsUnit(call.tangent)

\* C22: whenever the tangent is a unit vector, also one parallel to the
\* reference axis, the side vector of the frame is defined and of unit
\* length.
C22_SideDefined ==
    (call.op = "frame" /\ IsUnit(call.tangent)) => IsUnit(call.side)

\* C29: for a blade of positive height the vertical component of the Bezier
\* tangent is strictly positive at every t, type, bend, wind strength and
\* time, so cross(ref, tangent) is not the zero vector and the side vector
\* is of unit length.
C29_TangentRises ==
    (call.op = "frame" /\ call.blade.params[1] > 0) =>
        /\ call.raw[2] > 0
        /\ IsUnit(call.tangent)
        /\ Cross(FrameRef, call.tangent.v) # <<0, 0, 0>>
        /\ IsUnit(call.side)

\* The tangent at the tip of a bent blade of positive height whose control
\* points the wind has moved, at a time after the start.
C29_Witness ==
    /\ call.op = "frame"
    /\ call.blade.params[1] > 0 /\ call.blade.params[3] > 0
    /\ call.blade.t = ONE
    /\ call.uniforms.uTime > 0
    /\ call.points # call.static
    /\ call.raw[2] > 0 /\ call.raw[3] # 0

\* The displacement of control point i by the wind push, and the control
\* points a unit low wave moves along x from the origin.
PushOf(i) == Length3(Sub3(call.pushed[i], call.static[i]))
SwayUnit == SwayPoints(<<<<0, 0, 0>>, <<0, 0, 0>>, <<0, 0, 0>>>>, <<ONE, 0, 0>>, ONE, 0)

\* C25: wind push and sway leave the root p0 in place and weigh p1, p2, p3
\* strictly more from root to tip (push 0.08 < 0.15 < 0.25 of the push,
\* sway 0.25 < 0.55 < 1.0 of the low wave), so the spine at t = 0 is the
\* root for every wind strength, wind sample and time.
C25_RootFixed ==
    call.op = "frame" =>
        /\ call.root = <<0, 0, 0>>
        /\ PushOf(1) <= PushOf(2) /\ PushOf(2) <= PushOf(3)
        /\ call.pushed # call.static =>
              (0 < PushOf(1) /\ PushOf(1) < PushOf(2) /\ PushOf(2) < PushOf(3))
        /\ 0 < SwayUnit[1][1] /\ SwayUnit[1][1] < SwayUnit[2][1]
        /\ SwayUnit[2][1] < SwayUnit[3][1]
        /\ SwayUnit[1][1] = 2500 /\ SwayUnit[2][1] = 5500 /\ SwayUnit[3][1] = ONE

\* A blade of positive height that the wind has pushed and swayed, after the
\* start, with its spine still rooted at the origin.
C25_Witness ==
    /\ call.op = "frame"
    /\ call.blade.params[1] > 0
    /\ call.uniforms.uWindStrength > 0 /\ call.uniforms.wind > 0
    /\ call.uniforms.uTime > 0
    /\ call.pushed # call.static /\ call.points # call.pushed
    /\ call.points[3] # call.static[3]
    /\ call.root = <<0, 0, 0>>

(***************************************************************************)
(* getClumpInfo evaluated at one position: the result, with the squared    *)
(* distances from the position to the nine seeds of the neighbourhood in   *)
(* the order of the loops and to the sixteen seeds of the ring around it.  *)
(***************************************************************************)
SeedDist(cell, neighborCell) ==
    Dot2(Sub2(cell, Add2(neighborCell, hash2(neighborCell))))
NineDists(cell, baseCell) ==
    [k \in 1 .. 9 |->
        SeedDist(cell, <<baseCell[1] + NeighbourOrder[k][1] * ONE,
                         baseCell[2] + NeighbourOrder[k][2] * ONE>>)]
RingOffsets ==
    {<<i, j>> : i, j \in -2 .. 2} \ {<<i, j>> : i, j \in -1 .. 1}
RingDists(cell, baseCell) ==
    {SeedDist(cell, <<baseCell[1] + o[1] * ONE, baseCell[2] + o[2] * ONE>>) :
        o \in RingOffsets}

\* hash2 of the cells (x, z), x in -4 .. 0 and z in -3 .. 1, as the
\* arithmetic of IEEE doubles evaluates fract(sin(dot) * 43758.5453), to
\* four decimals: row x + 5, column z + 4.  The seed of cell (0, 0) is the
\* cell's corner in any arithmetic, sin(0) being 0.
SeedRows ==
    <<
      <<<<9439, 5253>>, <<4653, 2707>>, <<2214, 538>>, <<1052, 4892>>, <<3103, 487>>>>,
      <<<<4909, 2752>>, <<2613, 4731>>, <<3702, 9909>>, <<2738, 8496>>, <<8861, 673>>>>,
      <<<<2419, 4361>>, <<2200, 8702>>, <<1998, 951>>, <<1909, 6281>>, <<7578, 377>>>>,
      <<<<6773, 3474>>, <<5171, 4464>>, <<8953, 373>>, <<6743, 7836>>, <<2855, 3797>>>>,
      <<<<4025, 2800>>, <<9138, 9672>>, <<1806, 6476>>, <<0, 0>>, <<8193, 3523>>>>>>
hash2Exact(p) == SeedRows[p[1] \div ONE + 5][p[2] \div ONE + 4]

\* The loop of getClumpInfo over the tabulated seeds.
ExactDist(cell, neighborCell) ==
    Dot2(Sub2(cell, Add2(neighborCell, hash2Exact(neighborCell))))
RECURSIVE ExactLoop(_, _, _, _)
ExactLoop(cell, baseCell, k, best) ==
    IF k > 9 THEN best
    ELSE ExactLoop(cell, baseCell, k + 1,
                   ClumpPick(ExactDist(cell, <<baseCell[1] + NeighbourOrder[k][1] * ONE,
                                               baseCell[2] + NeighbourOrder[k][2] * ONE>>),
                             <<baseCell[1] + NeighbourOrder[k][1] * ONE,
                               baseCell[2] + NeighbourOrder[k][2] * ONE>>,
                             best))
ExactSearch(cell, clumpSize) ==
    ClumpResult(ExactLoop(cell, <<Floor(cell[1]), Floor(cell[2])>>, 1,
                          [minDist |-> 1000000000, bestCellId |-> <<0, 0>>]),
                clumpSize)
ExactNine(cell, baseCell) ==
    [k \in 1 .. 9 |->
        ExactDist(cell, <<baseCell[1] + NeighbourOrder[k][1] * ONE,
                          baseCell[2] + NeighbourOrder[k][2] * ONE>>)]
ExactRing(cell, baseCell) ==
    {ExactDist(cell, <<baseCell[1] + o[1] * ONE, baseCell[2] + o[2] * ONE>>) :
        o \in RingOffsets}

\* Positions of the cell (-2, -1) of the default clump size 0.8, whose ring
\* the table covers.
ExactPositions ==
    {<<x, z>> : x \in {0 - 15000, 0 - 12000, 0 - 9000, 0 - 8270, 0 - 8050},
                z \in {0 - 7000, 0 - 4000, 0 - 1434, 0 - 992}}

ExactOf(worldXZ, clumpSize, cell) ==
    [op |-> "locate", seeds |-> "tabulated", pos |-> worldXZ,
     clumpSize |-> clumpSize, cell |-> cell,
     baseCell |-> <<Floor(cell[1]), Floor(cell[2])>>,
     info |-> ExactSearch(cell, clumpSize),
     nine |-> ExactNine(cell, <<Floor(cell[1]), Floor(cell[2])>>),
     ring |-> ExactRing(cell, <<Floor(cell[1]), Floor(cell[2])>>)]

LocateExact ==
    /\ call = NoCall
    /\ \E worldXZ \in ExactPositions :
          call' = ExactOf(worldXZ, DefaultControls.clumpSize,
                          <<(worldXZ[1] * ONE) \div DefaultControls.clumpSize,
                            (worldXZ[2] * ONE) \div DefaultControls.clumpSize>>)
    /\ UNCHANGED pipelineVars

LocateCoords ==
    {0 - 20000, 0 - 18750, 0 - 13000, 0 - 5000, 0 - 2600, 0, 1700, 5000, 9400, 16000}
LocatePositions == {<<x, z>> : x, z \in LocateCoords}
LocateSizes == {8000, 20000}

LocateOf(worldXZ, clumpSize, cell) ==
    [op |-> "locate", seeds |-> "computed", pos |-> worldXZ,
     clumpSize |-> clumpSize, cell |-> cell,
     baseCell |-> <<Floor(cell[1]), Floor(cell[2])>>,
     info |-> getClumpInfo(worldXZ, clumpSize),
     nine |-> NineDists(cell, <<Floor(cell[1]), Floor(cell[2])>>),
     ring |-> RingDists(cell, <<Floor(cell[1]), Floor(cell[2])>>)]

LocateClump ==
    /\ call = NoCall
    /\ \E worldXZ \in LocatePositions : \E clumpSize \in LocateSizes :
          call' = LocateOf(worldXZ, clumpSize,
                           <<(worldXZ[1] * ONE) \div clumpSize,
                             (worldXZ[2] * ONE) \div clumpSize>>)
    /\ UNCHANGED pipelineVars

\* The place in the order of the loops of the cell that was returned.
ReturnedAt(k) ==
    call.info.cellId = <<call.baseCell[1] + NeighbourOrder[k][1] * ONE,
                         call.baseCell[2] + NeighbourOrder[k][2] * ONE>>

\* C26: getClumpInfo returns a cell of the 3x3 neighbourhood of the
\* position's cell whose seed is at minimum distance among the nine, the
\* first such cell in the order of the loops, and that distance in world
\* units.
C26_NearestOfNine ==
    call.op = "locate" =>
        \E k \in 1 .. 9 :
            /\ ReturnedAt(k)
            /\ \A m \in 1 .. 9 : call.nine[k] <= call.nine[m]
            /\ \A m \in 1 .. k - 1 : call.nine[m] > call.nine[k]
            /\ call.info.distToCenter = Mul(Sqrt(call.nine[k]), call.clumpSize)

\* C27: no seed of the ring of cells around the searched neighbourhood is
\* strictly nearer to the position than the returned seed.
C27_NearestOfAll ==
    call.op = "locate" =>
        \A k \in 1 .. 9 : ReturnedAt(k) => \A d \in call.ring : d >= call.nine[k]

\* Two seeds of the neighbourhood are at the same minimum distance and the
\* cell returned is the one visited first.
C26_Witness ==
    /\ call.op = "locate"
    /\ \E k, m \in 1 .. 9 :
          /\ k < m /\ ReturnedAt(k)
          /\ call.nine[m] = call.nine[k]
          /\ \A n \in 1 .. 9 : call.nine[k] <= call.nine[n]
    /\ call.info.distToCenter > 0

\* C27, amended: every seed outside the searched neighbourhood is farther
\* than one cell size from the position, so whenever the returned seed is
\* within one cell size no seed of the ring is strictly nearer; a ring seed
\* can be nearer only to a position whose nine seeds are all farther than
\* one cell size.
C27_NearestWithinOneCell ==
    call.op = "locate" =>
        \A k \in 1 .. 9 : ReturnedAt(k) =>
            /\ \A d \in call.ring : d > ONE
            /\ call.nine[k] <= ONE => \A d \in call.ring : d >= call.nine[k]

\* A position whose returned seed is farther than one cell size and has a
\* ring seed strictly nearer, and one whose returned seed is within one
\* cell size.
C27_Witness ==
    /\ call.op = "locate"
    /\ call.seeds = "tabulated"
    /\ \E k \in 1 .. 9 :
          /\ ReturnedAt(k) /\ call.nine[k] > ONE
          /\ \E d \in call.ring : d < call.nine[k] /\ d > ONE

(***************************************************************************)
(* The bodies of the loops of createGrassGeometry and createPositionTexture *)
(* run for two grid cells.                                                 *)
(***************************************************************************)
PlaceTwo ==
    /\ call = NoCall
    /\ \E x1, z1, x2, z2 \in 0 .. GRID_SIZE - 1 :
          call' = [op |-> "place", cells |-> <<<<x1, z1>>, <<x2, z2>>>>,
                   offsets |-> <<GeometryCell(x1, z1), GeometryCell(x2, z2)>>,
                   texels |-> <<TextureCell(x1, z1), TextureCell(x2, z2)>>]
    /\ UNCHANGED pipelineVars

\* The jitter of the k-th cell: what its position adds to fx * PATCH_SIZE
\* and fz * PATCH_SIZE.
GridOf(n) == ((n * ONE) \div GRID_SIZE - ONE \div 2) * PATCH_SIZE
JitterOf(pos, cell) == <<pos[1] - GridOf(cell[1]), pos[3] - GridOf(cell[2])>>

\* C30: the jitter of a grid cell depends only on the sum of its
\* coordinates: two cells with the same sum, such as (x, z) and (z, x), get
\* the same jitter offset, in the geometry and in the position texture.
C30_JitterBySum ==
    (call.op = "place"
       /\ call.cells[1][1] + call.cells[1][2] = call.cells[2][1] + call.cells[2][2]) =>
        /\ JitterOf(call.offsets[1], call.cells[1]) = JitterOf(call.offsets[2], call.cells[2])
        /\ JitterOf(call.texels[1], call.cells[1]) = JitterOf(call.texels[2], call.cells[2])

\* Two different cells, one the transpose of the other, at different
\* positions with the same non-zero jitter.
C30_Witness ==
    /\ call.op = "place"
    /\ call.cells[1] # call.cells[2]
    /\ call.cells[2] = <<call.cells[1][2], call.cells[1][1]>>
    /\ call.offsets[1] # call.offsets[2]
    /\ JitterOf(call.offsets[1], call.cells[1]) = JitterOf(call.offsets[2], call.cells[2])
    /\ JitterOf(call.offsets[1], call.cells[1]) # <<0, 0>>

(***************************************************************************)
(* computeLightingNormal of the fragment shader: the weight of the mix of  *)
(* the geometric normal toward the clump normal.                           *)
(***************************************************************************)
\* heightMask = pow(1.0 - t, 0.7).  heightMaskRising is the mask of t itself.
heightMaskRising(t) == Pow(t, 7000)
heightMask(t) == Pow(ONE - t, 7000)
\* distMask = smoothstep(4.0, 12.0, dist), dist = length(cameraPosition - worldPos).
DistMaskOf(x) == Mul(Mul(x, x), 3 * ONE - 2 * x)
distMask(dist) == DistMaskOf(Clamp(((dist - 4 * ONE) * ONE) \div (8 * ONE), 0, ONE))
\* The third argument of mix: heightMask * distMask.
BlendWeight(t, dist) == Mul(heightMask(t), distMask(dist))

\* Camera distances from 0 to MaxCameraDistance and heights along the blade.
MaxCameraDistance == 14
CameraDistances == {k * ONE : k \in 0 .. MaxCameraDistance}
BlendHeights == {0, 2500, 5000, 7500, ONE}

\* The weight at two heights t[1] <= t[2] and two distances dist[1] <= dist[2]:
\* weight[i][j] is the weight at t[i] and dist[j].
BlendTwo ==
    /\ call = NoCall
    /\ \E t1, t2 \in BlendHeights : \E d1, d2 \in CameraDistances :
          /\ t1 <= t2 /\ d1 <= d2
          /\ call' = [op |-> "blend", t |-> <<t1, t2>>, dist |-> <<d1, d2>>,
                      weight |-> <<<<BlendWeight(t1, d1), BlendWeight(t1, d2)>>,
                                   <<BlendWeight(t2, d1), BlendWeight(t2, d2)>>>>]
    /\ UNCHANGED pipelineVars

\* C24: the weight of the blend toward the clump normal does not decrease
\* with the height t at a fixed camera distance, nor with the camera
\* distance at a fixed t.
C24_WeightRises ==
    call.op = "blend" =>
        /\ \A j \in 1 .. 2 : call.weight[1][j] <= call.weight[2][j]
        /\ \A i \in 1 .. 2 : call.weight[i][1] <= call.weight[i][2]

\* C24, amended: the weight does not increase with the height t at a fixed
\* camera distance and does not decrease with the camera distance at a
\* fixed t; it is 1 at the root from distance 12 on, and 0 at the tip and
\* up to distance 4.
C24_WeightFallsWithHeight ==
    call.op = "blend" =>
        /\ \A j \in 1 .. 2 : call.weight[1][j] >= call.weight[2][j]
        /\ \A i \in 1 .. 2 : call.weight[i][1] <= call.weight[i][2]
        /\ \A i, j \in 1 .. 2 :
              /\ call.weight[i][j] >= 0 /\ call.weight[i][j] <= ONE
              /\ (call.t[i] = 0 /\ call.dist[j] >= 12 * ONE) => call.weight[i][j] = ONE
              /\ (call.t[i] = ONE \/ call.dist[j] <= 4 * ONE) => call.weight[i][j] = 0

\* Two heights and two distances inside the band 4 .. 12 at which the
\* weight falls strictly with the height and rises strictly with the
\* distance.
C24_Witness ==
    /\ call.op = "blend"
    /\ call.t[1] < call.t[2] /\ call.dist[1] < call.dist[2]
    /\ call.dist[1] > 4 * ONE /\ call.dist[2] < 12 * ONE
    /\ call.weight[1][1] > call.weight[2][1] /\ call.weight[2][1] > 0
    /\ call.weight[1][1] < call.weight[1][2]

(***************************************************************************)
(* The parameter pass run while the host has the canvas or a render target *)
(* of its own bound: heap.mrt[1] is the host's target, heap.mrt[2] the     *)
(* component's.                                                            *)
(***************************************************************************)
PassRuns == {"initCompute", "compute", "useFrame"}
HostHeap(c, run) ==
    [geometry        |-> <<createGrassGeometry>>,
     positionTexture |-> <<createPositionTexture>>,
     mrt             |-> <<NewRenderTarget, NewRenderTarget>>,
     material        |-> <<NewComputeMaterial(IF run = "useFrame" THEN "inline" ELSE "hook",
                                              1, c)>>,
     scene           |-> <<NewComputeScene(1)>>]
HostWorld(bound, c, run) ==
    [heap |-> HostHeap(c, run), uniforms |-> NewUniforms(HostHeap(c, run)),
     glTarget |-> bound, passes |-> 0, frameLog |-> <<>>]
RunOf(run, w, elapsedTime) ==
    IF run = "initCompute" THEN initCompute(w)
    ELSE IF run = "compute" THEN compute(w)
    ELSE useFrameInline(w, elapsedTime)

RunBound ==
    /\ call = NoCall
    /\ \E bound \in 0 .. 1 : \E c \in EvalControls : \E run \in PassRuns :
       \E elapsedTime \in 1 .. MaxTime :
          call' = [op |-> "bound", run |-> run,
                   before |-> HostWorld(bound, c, run),
                   after |-> RunOf(run, HostWorld(bound, c, run), elapsedTime)]
    /\ UNCHANGED pipelineVars

\* C28: every run of the parameter pass, from the mount effect, from the
\* frame callback and from compute(), leaves the renderer bound to the
\* target bound before it, and changes nothing but the contents of the
\* component's own render target.
C28_TargetRestored ==
    call.op = "bound" =>
        /\ call.after.glTarget = call.before.glTarget
        /\ call.after.heap.mrt[1] = call.before.heap.mrt[1]
        /\ call.after.heap.geometry = call.before.heap.geometry
        /\ call.after.heap.positionTexture = call.before.heap.positionTexture
        /\ call.after.heap.material = call.before.heap.material
        /\ call.after.heap.scene = call.before.heap.scene
        /\ call.after.heap.mrt[2].width = call.before.heap.mrt[2].width
        /\ call.after.heap.mrt[2].height = call.before.heap.mrt[2].height
        /\ call.after.heap.mrt[2].textures # call.before.heap.mrt[2].textures
        /\ call.after.passes = call.before.passes + 1

\* compute() run while the host has its own render target bound: the
\* component's target is written and the host's is bound again.
C28_Witness ==
    /\ call.op = "bound"
    /\ call.run = "compute"
    /\ call.before.glTarget = 1
    /\ call.after.glTarget = 1
    /\ \A t \in AllTexels : call.after.heap.mrt[2].textures[1][t].scene = "compute"
    /\ \A t \in AllTexels : call.after.heap.mrt[1].textures[1][t].scene = "none"

(***************************************************************************)
(* The component under changes of the rendering and wind controls: the     *)
(* thickness and the wind strength vary, the compute controls keep their   *)
(* defaults.                                                               *)
(***************************************************************************)
RenderingValues ==
    [thicknessStrength |-> <<200, 500>>,
     windStrength      |-> <<3500, 0, ONE>>]

ChangeRendering ==
    /\ mounted
    /\ pc = "idle"
    /\ pending = <<>>
    /\ changes < MaxChanges
    /\ \E n \in DOMAIN RenderingValues : \E k \in DOMAIN RenderingValues[n] :
          /\ RenderingValues[n][k] # controls[n]
          /\ RenderCommit([controls EXCEPT ![n] = RenderingValues[n][k]], FALSE)
    /\ changes' = changes + 1
    /\ UNCHANGED <<variant, glTarget, clock, pc, passes, frameLog, lastDraw, call>>

ShadowNext ==
    \/ Mount
    \/ ChangeRendering
    \/ FlushEffects
    \/ FrameBegin
    \/ FrameCallbackInline
    \/ FrameCallbackHook
    \/ FrameRender

SpecShadow == Init /\ [][ShadowNext]_vars

\* C23: at every draw the depth material evaluates the same vertex shader
\* with the same uniforms as the grass material: the same parameter
\* textures and texels read, time, wind strength and thickness, whatever
\* the controls were changed to before.
C23_DepthMatchesVisible ==
    lastDraw # <<>> =>
        /\ lastDraw.depth.vertexShader = lastDraw.visible.vertexShader
        /\ lastDraw.depth.uniforms = lastDraw.visible.uniforms
        /\ lastDraw.depth.reads = lastDraw.visible.reads
        /\ lastDraw.visible.uniforms.uTime = lastDraw.uTime
        /\ lastDraw.visible.reads = lastDraw.reads

\* A draw at a time after the start, after the thickness and the wind
\* strength were changed and the effects ran.
C23_Witness ==
    /\ lastDraw # <<>>
    /\ lastDraw.uTime > 0
    /\ lastDraw.depth.uniforms.uTime = lastDraw.uTime
    /\ lastDraw.depth.uniforms.thicknessStrength = 500
    /\ lastDraw.depth.uniforms.uWindStrength = 0
    /\ lastDraw.depth.reads[1].bladeParams.scene = "compute"

(***************************************************************************)
(* The specification of the evaluations.                                   *)
(***************************************************************************)
EvalNext ==
    \/ GenerateRandom
    \/ GenerateSeeded
    \/ SyntheticPass
    \/ ShadeTwo
    \/ DispatchTwo
    \/ PresenceTwo
    \/ DeformCubic
    \/ DeformQuadratic
    \/ WidthAt
    \/ FrameCubic
    \/ LocateClump
    \/ LocateExact
    \/ PlaceTwo
    \/ BlendTwo
    \/ RunBound

SpecEval == Init /\ [][EvalNext]_vars

====
